---------------------------- MODULE Spec2Model ----------------------------
(***************************************************************************)
(* VaultSphere: synthetic multi-tenant activity logs with injected         *)
(* anomalies (generate_synthetic_logs.py, generate_separate_tenant_        *)
(* datasets.py) and the detector that rediscovers them                     *)
(* (analyze_anomalies.py).                                                 *)
(*                                                                         *)
(* An event is a record with the seven columns of the CSV file.            *)
(* The detector's timestamps are integers counting seconds; the hour of    *)
(* day of a timestamp t is (t \div 3600) % 24.  The generators' datetimes  *)
(* count ticks, a fixed number to the second.  A resource id is the tuple  *)
(* of the parts that the f-string joins with "_": <<"RES", n>> is          *)
(* "RES_<n>" and                                                           *)
(* <<"RES", t, n>> is "RES_<t>_<n>".  A user id is the tuple of the parts  *)
(* of f"T{tenant_id:02d}U{user_id:03d}": <<"T", 1, "U", 7>> is "T01U007".  *)
(***************************************************************************)
EXTENDS Integers, Sequences, FiniteSets, TLC

VARIABLES
    \* ---- VaultSphereAnomalyDetector ----
    df,                       \* self.df: the rows of the loaded file, in file order
    call,                     \* the detector method that ran last, with its arguments
    failed_login_anomalies,   \* result of detect_failed_login_bursts
    unusual_event_anomalies,  \* result of detect_unusual_event_types
    suspicious_ip_anomalies,  \* result of detect_suspicious_ip_access
    off_hours_anomalies,      \* result of detect_off_hours_activity
    summary,                  \* total_anomalies and risk_level of generate_summary_report
    \* ---- the analysis programs ----
    entry,                    \* the program whose main() runs ("none": a detector object only)
    input,                    \* the CSV file that the program reads
    outcome,                  \* how far main() got, or the exception that ended it
    active_users,             \* analyze_tenant_logs: the users with 5+ off-hours events, with their counts
    validation,               \* validate_dataset: the verdicts it printed, in order
    \* ---- the generators ----
    generator,                \* which program runs: "synthetic" or "separate" ("none": detector only)
    tenant_key,               \* generate_tenant_dataset's argument ("all" for generate_logs)
    users_data,               \* user profiles, in creation order
    logs,                     \* the log collection
    baseline,                 \* history: the collection when injection started
    injected,                 \* history: the records the injectors built, in order
    order,                    \* the injectors in the order in which the run calls them
    history,                  \* history: the steps of the run, each with the number of records it appended
    file,                     \* the CSV file that save_to_csv writes
    pc                        \* the step of generate_logs / generate_tenant_dataset

vars == <<df, call, failed_login_anomalies, unusual_event_anomalies,
          suspicious_ip_anomalies, off_hours_anomalies, summary,
          entry, input, outcome, active_users, validation,
          generator, tenant_key, order, users_data, logs, baseline, injected,
          history, file, pc>>

main_vars == <<entry, input, outcome, active_users, validation>>

detector_vars == <<df, call, failed_login_anomalies, unusual_event_anomalies,
                   suspicious_ip_anomalies, off_hours_anomalies, summary,
                   entry, input, outcome, active_users, validation>>

generator_vars == <<generator, tenant_key, order, users_data, logs, baseline,
                    injected, history, file, pc>>

-----------------------------------------------------------------------------
(* Sequences as pandas uses them *)

Range(s) == {s[i] : i \in DOMAIN s}

Min(a, b) == IF a < b THEN a ELSE b

Max(a, b) == IF a > b THEN a ELSE b

\* Faulty variant: the values with their repetitions.
Repeated(s) == s

\* Series.unique(): the distinct values in order of first appearance.
Unique(s) ==
    LET firsts == SelectSeq([i \in DOMAIN s |-> i],
                            LAMBDA i : \A j \in 1..(i - 1) : s[j] # s[i])
    IN [k \in DOMAIN firsts |-> s[firsts[k]]]

\* df[column]
Column(rows, c) == [i \in DOMAIN rows |-> rows[i][c]]

\* df[df['user_id'] == user_id]
UserEvents(rows, user_id) == SelectSeq(rows, LAMBDA e : e.user_id = user_id)

\* Series.max() of the timestamps; NaT for no rows.
MaxTimestamp(rows) ==
    IF rows = <<>> THEN "NaT"
    ELSE CHOOSE t \in Range(Column(rows, "timestamp")) :
             \A i \in DOMAIN rows : rows[i].timestamp <= t

\* Insertion of a row behind the rows that are not later than it.
RECURSIVE InsertByTimestamp(_, _)
InsertByTimestamp(sorted, e) ==
    IF sorted = <<>> THEN <<e>>
    ELSE IF sorted[Len(sorted)].timestamp <= e.timestamp THEN Append(sorted, e)
    ELSE Append(InsertByTimestamp(SubSeq(sorted, 1, Len(sorted) - 1), e),
                sorted[Len(sorted)])

\* sort_values('timestamp') / list.sort(key=timestamp): ascending; rows with
\* equal timestamps keep their order (list.sort is stable, and so is the
\* insertion sort numpy applies to the short per-user frames).
RECURSIVE SortByTimestamp(_)
SortByTimestamp(rows) ==
    IF rows = <<>> THEN <<>>
    ELSE InsertByTimestamp(SortByTimestamp(SubSeq(rows, 1, Len(rows) - 1)),
                           rows[Len(rows)])

\* Timestamp.hour
Hour(t) == (t \div 3600) % 24

-----------------------------------------------------------------------------
(* detect_failed_login_bursts *)

\* The rows with event_type LOGIN and status FAILURE.
FailedLogins(rows) ==
    SelectSeq(rows, LAMBDA e : e.event_type = "LOGIN" /\ e.status = "FAILURE")

\* Faulty variant: the length of the window is taken in seconds.
WindowFailuresOfSeconds(user_failures, i, time_window_minutes) ==
    LET window_start == user_failures[i].timestamp
        window_end   == window_start + time_window_minutes
    IN SelectSeq(user_failures,
                 LAMBDA e : e.timestamp >= window_start /\ e.timestamp <= window_end)

\* The rows of user_failures inside [window_start, window_start + window].
WindowFailures(user_failures, i, time_window_minutes) ==
    LET window_start == user_failures[i].timestamp
        window_end   == window_start + 60 * time_window_minutes
    IN SelectSeq(user_failures,
                 LAMBDA e : e.timestamp >= window_start /\ e.timestamp <= window_end)

\* Faulty variant: the window must exceed the threshold.
WindowExceeds(user_failures, i, threshold, time_window_minutes) ==
    Len(WindowFailures(user_failures, i, time_window_minutes)) > threshold

\* Whether the window starting at row i reaches the threshold.
WindowReaches(user_failures, i, threshold, time_window_minutes) ==
    Len(WindowFailures(user_failures, i, time_window_minutes)) >= threshold

\* Faulty variant: the last window that reaches the threshold.
LastBurstIndex(user_failures, threshold, time_window_minutes) ==
    LET hits == {i \in DOMAIN user_failures :
                     WindowReaches(user_failures, i, threshold, time_window_minutes)}
    IN IF hits = {} THEN 0
       ELSE CHOOSE i \in hits : \A j \in hits : i >= j

\* The first i of the for loop at which the window reaches the threshold
\* (the loop breaks there); 0 when the loop ends without one.
FirstBurstIndex(user_failures, threshold, time_window_minutes) ==
    LET hits == {i \in DOMAIN user_failures :
                     WindowReaches(user_failures, i, threshold, time_window_minutes)}
    IN IF hits = {} THEN 0
       ELSE CHOOSE i \in hits : \A j \in hits : i <= j

\* The anomaly record built for the window starting at row i.
BurstAnomaly(user_id, user_failures, i, time_window_minutes) ==
    LET window_failures == WindowFailures(user_failures, i, time_window_minutes)
        burst_ips       == Unique(Column(window_failures, "ip_address"))
    IN [user_id        |-> user_id,
        tenant_id      |-> user_failures[1].tenant_id,
        start_time     |-> user_failures[i].timestamp,
        end_time       |-> MaxTimestamp(window_failures),
        failure_count  |-> Len(window_failures),
        unique_ips     |-> Len(burst_ips),
        suspicious_ips |-> burst_ips]

\* Faulty variant: no break, every window that reaches the threshold is reported.
UserBurstsNoBreak(failed_logins, user_id, threshold, time_window_minutes) ==
    LET user_failures == SortByTimestamp(UserEvents(failed_logins, user_id))
        hits == SelectSeq([i \in DOMAIN user_failures |-> i],
                          LAMBDA i : WindowReaches(user_failures, i, threshold,
                                                   time_window_minutes))
    IN IF Len(user_failures) < threshold THEN <<>>
       ELSE [k \in DOMAIN hits |->
                BurstAnomaly(user_id, user_failures, hits[k], time_window_minutes)]

\* One pass of the loop over the users: the anomalies this user adds.
UserBursts(failed_logins, user_id, threshold, time_window_minutes) ==
    LET user_failures == SortByTimestamp(UserEvents(failed_logins, user_id))
        i == FirstBurstIndex(user_failures, threshold, time_window_minutes)
    IN IF Len(user_failures) < threshold THEN <<>>
       ELSE IF i = 0 THEN <<>>
       ELSE <<BurstAnomaly(user_id, user_failures, i, time_window_minutes)>>

RECURSIVE BurstsOfUsers(_, _, _, _)
BurstsOfUsers(failed_logins, user_ids, threshold, time_window_minutes) ==
    IF user_ids = <<>> THEN <<>>
    ELSE BurstsOfUsers(failed_logins, SubSeq(user_ids, 1, Len(user_ids) - 1),
                       threshold, time_window_minutes)
         \o UserBursts(failed_logins, user_ids[Len(user_ids)],
                       threshold, time_window_minutes)

DetectFailedLoginBursts(rows, threshold, time_window_minutes) ==
    LET failed_logins == FailedLogins(rows)
    IN IF failed_logins = <<>> THEN <<>>
       ELSE BurstsOfUsers(failed_logins, Unique(Column(failed_logins, "user_id")),
                          threshold, time_window_minutes)

-----------------------------------------------------------------------------
(* Percentages.  (count / total) * 100 is kept as the fraction with      *)
(* numerator 100 * count and denominator total, and compared exactly.    *)
(* For every total up to 3000 the comparison of the double               *)
(* (count / total) * 100 with 2.0 and with 10 has the outcome of the     *)
(* exact comparison, so the rounding of the division is not visible in   *)
(* the decisions modelled here.                                          *)

Percentage(count, total) ==
    IF total > 0 THEN [num |-> 100 * count, den |-> total]
    ELSE [num |-> 0, den |-> 1]

\* percentage > n
PercentageAbove(p, n) == p.num > n * p.den

\* p >= q
PercentageGeq(p, q) == p.num * q.den >= q.num * p.den

\* An integer sort key, as a fraction.
AsKey(n) == [num |-> n, den |-> 1]

\* list.sort(key=..., reverse=True) / sorted(..., reverse=True) on a list of
\* <<key, item>> pairs: descending by key, items with equal keys keep their
\* order.
RECURSIVE InsertDescending(_, _)
InsertDescending(sorted, pair) ==
    IF sorted = <<>> THEN <<pair>>
    ELSE IF PercentageGeq(sorted[Len(sorted)][1], pair[1]) THEN Append(sorted, pair)
    ELSE Append(InsertDescending(SubSeq(sorted, 1, Len(sorted) - 1), pair),
                sorted[Len(sorted)])

RECURSIVE SortPairsDescending(_)
SortPairsDescending(pairs) ==
    IF pairs = <<>> THEN <<>>
    ELSE InsertDescending(SortPairsDescending(SubSeq(pairs, 1, Len(pairs) - 1)),
                          pairs[Len(pairs)])

\* Faulty variant: the items stay in the order in which they were appended.
UnsortedItems(pairs) == [i \in DOMAIN pairs |-> pairs[i][2]]

SortDescending(pairs) ==
    LET sorted == SortPairsDescending(pairs)
    IN [i \in DOMAIN sorted |-> sorted[i][2]]

\* The number of rows whose column c holds v.
CountOf(rows, c, v) == Cardinality({i \in DOMAIN rows : rows[i][c] = v})

\* The distinct user ids of the frame, in order of first appearance.
UserIds(rows) == Unique(Column(rows, "user_id"))

-----------------------------------------------------------------------------
(* detect_unusual_event_types *)

\* Faulty variant: the share of LOGIN events is taken.
EventTypeProfileOfLogins(rows, user_id) ==
    LET user_events  == UserEvents(rows, user_id)
        total_events == Len(user_events)
    IN [total_events      |-> total_events,
        delete_percentage |-> Percentage(CountOf(user_events, "event_type", "LOGIN"),
                                         total_events),
        tenant_id         |-> user_events[1].tenant_id]

\* The user's profile: total events, share of DELETE events, tenant.
EventTypeProfile(rows, user_id) ==
    LET user_events  == UserEvents(rows, user_id)
        total_events == Len(user_events)
    IN [total_events      |-> total_events,
        delete_percentage |-> Percentage(CountOf(user_events, "event_type", "DELETE"),
                                         total_events),
        tenant_id         |-> user_events[1].tenant_id]

\* Faulty variant: the volume floor includes 50.
UnusualEventFlagFrom50(profile) ==
    PercentageAbove(profile.delete_percentage, 2) /\ profile.total_events >= 50

\* delete_percentage > 2.0 and total_events > 50
UnusualEventFlag(profile) ==
    PercentageAbove(profile.delete_percentage, 2) /\ profile.total_events > 50

\* The users the second loop appends, in profile order.
UnusualEventUsers(rows) ==
    SelectSeq(UserIds(rows), LAMBDA u : UnusualEventFlag(EventTypeProfile(rows, u)))

\* delete_count = int((delete_percentage / 100) * total_events).  The double
\* product is the DELETE count or falls just below it, and int() truncates:
\* `lost` holds the users for which the count comes out one too small.
UnusualEventAnomaly(rows, user_id, lost) ==
    LET profile == EventTypeProfile(rows, user_id)
        exact   == profile.delete_percentage.num \div 100
    IN [user_id           |-> user_id,
        tenant_id         |-> profile.tenant_id,
        delete_percentage |-> profile.delete_percentage,
        delete_count      |-> IF user_id \in lost THEN exact - 1 ELSE exact,
        total_events      |-> profile.total_events]

DetectUnusualEventTypes(rows, lost) ==
    LET flagged == UnusualEventUsers(rows)
    IN SortDescending(
           [i \in DOMAIN flagged |->
               LET a == UnusualEventAnomaly(rows, flagged[i], lost)
               IN <<a.delete_percentage, a>>])

-----------------------------------------------------------------------------
(* detect_suspicious_ip_access *)

\* value_counts(): the distinct values with their counts, most frequent
\* first; values with equal counts in order of first appearance.
ValueCounts(values) ==
    LET distinct == Unique(values)
    IN SortDescending(
           [i \in DOMAIN distinct |->
               LET n == Cardinality({j \in DOMAIN values : values[j] = distinct[i]})
               IN <<AsKey(n), <<distinct[i], n>>>>])

\* Faulty variant: an IP with exactly 10% of the events is primary.
IsPrimaryIpFrom10(count, total_events) ==
    total_events > 0 /\ 100 * count >= 10 * total_events

\* percentage > 10
IsPrimaryIp(count, total_events) ==
    PercentageAbove(Percentage(count, total_events), 10)

\* Faulty variant: if in place of elif, a primary IP is counted too.
IsSuspiciousIpToo(count, total_events) == count >= 3

\* elif count >= 3
IsSuspiciousIp(count, total_events) ==
    ~IsPrimaryIp(count, total_events) /\ count >= 3

IpProfile(rows, user_id) ==
    LET user_events  == UserEvents(rows, user_id)
        ip_counts    == ValueCounts(Column(user_events, "ip_address"))
        total_events == Len(user_events)
        primary      == SelectSeq(ip_counts, LAMBDA p : IsPrimaryIp(p[2], total_events))
    IN [tenant_id      |-> user_events[1].tenant_id,
        total_events   |-> total_events,
        unique_ips     |-> Len(ip_counts),
        primary_ips    |-> [i \in DOMAIN primary |-> primary[i][1]],
        suspicious_ips |-> SelectSeq(ip_counts,
                                     LAMBDA p : IsSuspiciousIp(p[2], total_events))]

\* unique_ips > 5 or len(suspicious_ips) > 2
SuspiciousIpFlag(profile) ==
    profile.unique_ips > 5 \/ Len(profile.suspicious_ips) > 2

SuspiciousIpAnomaly(rows, user_id) ==
    LET profile == IpProfile(rows, user_id)
    IN [user_id        |-> user_id,
        tenant_id      |-> profile.tenant_id,
        unique_ips     |-> profile.unique_ips,
        primary_ips    |-> profile.primary_ips,
        suspicious_ips |-> SubSeq(profile.suspicious_ips, 1,
                                  Min(5, Len(profile.suspicious_ips))),
        total_events   |-> profile.total_events]

DetectSuspiciousIpAccess(rows) ==
    LET flagged == SelectSeq(UserIds(rows),
                             LAMBDA u : SuspiciousIpFlag(IpProfile(rows, u)))
    IN SortDescending(
           [i \in DOMAIN flagged |->
               LET a == SuspiciousIpAnomaly(rows, flagged[i])
               IN <<AsKey(a.unique_ips), a>>])

-----------------------------------------------------------------------------
(* detect_off_hours_activity *)

off_hours == {23, 0, 1, 2, 3, 4, 5}

\* Faulty variant: the hour is written over the timestamp as well.
AddHourColumnOverTimestamp(rows) ==
    [i \in DOMAIN rows |->
        [timestamp   |-> Hour(rows[i].timestamp),
         tenant_id   |-> rows[i].tenant_id,
         user_id     |-> rows[i].user_id,
         event_type  |-> rows[i].event_type,
         resource_id |-> rows[i].resource_id,
         status      |-> rows[i].status,
         ip_address  |-> rows[i].ip_address,
         hour        |-> Hour(rows[i].timestamp)]]

\* self.df['hour'] = self.df['timestamp'].dt.hour
AddHourColumn(rows) ==
    [i \in DOMAIN rows |->
        [timestamp   |-> rows[i].timestamp,
         tenant_id   |-> rows[i].tenant_id,
         user_id     |-> rows[i].user_id,
         event_type  |-> rows[i].event_type,
         resource_id |-> rows[i].resource_id,
         status      |-> rows[i].status,
         ip_address  |-> rows[i].ip_address,
         hour        |-> Hour(rows[i].timestamp)]]

\* user_events[user_events['hour'].isin(off_hours)]
OffHoursEvents(user_events) ==
    SelectSeq(user_events, LAMBDA e : e.hour \in off_hours)

\* Faulty variant: five off-hours events are enough.
OffHoursFlagFrom5(off_hours_count) == off_hours_count >= 5

\* off_hours_count > 5
OffHoursFlag(off_hours_count) == off_hours_count > 5

OffHoursData(rows, user_id) ==
    LET user_events     == UserEvents(rows, user_id)
        off_hours_events == OffHoursEvents(user_events)
    IN [tenant_id            |-> user_events[1].tenant_id,
        total_events         |-> Len(user_events),
        off_hours_count      |-> Len(off_hours_events),
        off_hours_percentage |-> Percentage(Len(off_hours_events), Len(user_events)),
        off_hours_events     |-> off_hours_events]

\* The (user_id, data) items, sorted by off-hours percentage; rows is the
\* frame with its hour column.
DetectOffHoursActivity(rows) ==
    LET flagged == SelectSeq(UserIds(rows),
                             LAMBDA u : OffHoursFlag(OffHoursData(rows, u).off_hours_count))
    IN SortDescending(
           [i \in DOMAIN flagged |->
               LET data == OffHoursData(rows, flagged[i])
               IN <<data.off_hours_percentage, <<flagged[i], data>>>>])

-----------------------------------------------------------------------------
(* generate_summary_report *)

TotalAnomalies(failed, unusual, ips, offh) ==
    Len(failed) + Len(unusual) + Len(ips) + Len(offh)

\* Faulty variant: the cutoffs are included.
RiskLevelInclusive(total_anomalies) ==
    IF total_anomalies >= 50 THEN "HIGH"
    ELSE IF total_anomalies >= 20 THEN "MEDIUM"
    ELSE "LOW"

RiskLevel(total_anomalies) ==
    IF total_anomalies > 50 THEN "HIGH"
    ELSE IF total_anomalies > 20 THEN "MEDIUM"
    ELSE "LOW"

-----------------------------------------------------------------------------
(* The detector's methods as actions on a loaded frame *)

Event(timestamp, tenant_id, user_id, event_type, resource_id, status, ip_address) ==
    [timestamp   |-> timestamp,
     tenant_id   |-> tenant_id,
     user_id     |-> user_id,
     event_type  |-> event_type,
     resource_id |-> resource_id,
     status      |-> status,
     ip_address  |-> ip_address]

\* f"T{tenant_id:02d}U{user_id:03d}"
UserId(tenant_id, ordinal) == <<"T", tenant_id, "U", ordinal>>

NoCall == [op |-> "none", threshold |-> 0, time_window_minutes |-> 0]

NoSummary == [total_anomalies |-> 0, risk_level |-> "none", returned |-> FALSE]

\* Nothing has been written yet.
NoFile == [written |-> FALSE, header |-> <<>>, rows |-> <<>>]

\* No generator runs while the detector is looked at.
GeneratorIdle ==
    /\ generator = "none"
    /\ tenant_key = "none"
    /\ order = <<>>
    /\ users_data = <<>>
    /\ logs = <<>>
    /\ baseline = <<>>
    /\ injected = <<>>
    /\ history = <<>>
    /\ file = NoFile
    /\ pc = "idle"

\* No program's main() runs: the detector object is looked at by itself, or a
\* generator runs.
MainIdle ==
    /\ entry = "none"
    /\ input = NoFile
    /\ outcome = "idle"
    /\ active_users = {}
    /\ validation = <<>>

\* __init__: the file is loaded, no method has run.
DetectorConstructed(rows) ==
    /\ df = rows
    /\ call = NoCall
    /\ failed_login_anomalies = <<>>
    /\ unusual_event_anomalies = <<>>
    /\ suspicious_ip_anomalies = <<>>
    /\ off_hours_anomalies = <<>>
    /\ summary = NoSummary

DetectorLoaded(rows) ==
    /\ DetectorConstructed(rows)
    /\ MainIdle
    /\ GeneratorIdle

detect_failed_login_bursts(threshold, time_window_minutes) ==
    /\ generator = "none"
    /\ failed_login_anomalies' =
           DetectFailedLoginBursts(df, threshold, time_window_minutes)
    /\ call' = [op |-> "detect_failed_login_bursts", threshold |-> threshold,
                time_window_minutes |-> time_window_minutes]
    /\ UNCHANGED <<df, unusual_event_anomalies, suspicious_ip_anomalies,
                   off_hours_anomalies, summary>>
    /\ UNCHANGED main_vars
    /\ UNCHANGED generator_vars

detect_unusual_event_types ==
    /\ generator = "none"
    /\ \E lost \in SUBSET Range(UnusualEventUsers(df)) :
           unusual_event_anomalies' = DetectUnusualEventTypes(df, lost)
    /\ call' = [NoCall EXCEPT !.op = "detect_unusual_event_types"]
    /\ UNCHANGED <<df, failed_login_anomalies, suspicious_ip_anomalies,
                   off_hours_anomalies, summary>>
    /\ UNCHANGED main_vars
    /\ UNCHANGED generator_vars

detect_suspicious_ip_access ==
    /\ generator = "none"
    /\ suspicious_ip_anomalies' = DetectSuspiciousIpAccess(df)
    /\ call' = [NoCall EXCEPT !.op = "detect_suspicious_ip_access"]
    /\ UNCHANGED <<df, failed_login_anomalies, unusual_event_anomalies,
                   off_hours_anomalies, summary>>
    /\ UNCHANGED main_vars
    /\ UNCHANGED generator_vars

detect_off_hours_activity ==
    /\ generator = "none"
    /\ df' = AddHourColumn(df)
    /\ off_hours_anomalies' = DetectOffHoursActivity(AddHourColumn(df))
    /\ call' = [NoCall EXCEPT !.op = "detect_off_hours_activity"]
    /\ UNCHANGED <<failed_login_anomalies, unusual_event_anomalies,
                   suspicious_ip_anomalies, summary>>
    /\ UNCHANGED main_vars
    /\ UNCHANGED generator_vars

\* The default arguments of detect_failed_login_bursts.
DefaultThreshold == 10

DefaultWindowMinutes == 60

\* Runs the four methods, adds up the lengths of their lists and grades the
\* total.  The anomaly rate divides by len(self.df): on a frame without rows
\* the method raises there, after the risk level, and returns nothing; the
\* exception leaves the main() that called the method.
generate_summary_report ==
    /\ \E lost \in SUBSET Range(UnusualEventUsers(df)) :
           LET failed  == DetectFailedLoginBursts(df, DefaultThreshold,
                                                  DefaultWindowMinutes)
               unusual == DetectUnusualEventTypes(df, lost)
               ips     == DetectSuspiciousIpAccess(df)
               offh    == DetectOffHoursActivity(AddHourColumn(df))
               total_anomalies == TotalAnomalies(failed, unusual, ips, offh)
           IN /\ failed_login_anomalies' = failed
              /\ unusual_event_anomalies' = unusual
              /\ suspicious_ip_anomalies' = ips
              /\ off_hours_anomalies' = offh
              /\ summary' = [total_anomalies |-> total_anomalies,
                             risk_level      |-> RiskLevel(total_anomalies),
                             returned        |-> Len(df) > 0]
    /\ df' = AddHourColumn(df)
    /\ call' = [op |-> "generate_summary_report", threshold |-> DefaultThreshold,
                time_window_minutes |-> DefaultWindowMinutes]
    /\ outcome' = IF entry = "none" THEN outcome
                  ELSE IF Len(df) = 0 THEN "ZeroDivisionError" ELSE "completed"
    /\ UNCHANGED <<entry, input, active_users, validation>>
    /\ UNCHANGED generator_vars

-----------------------------------------------------------------------------
(* Frames for detect_failed_login_bursts *)

\* Sequences over a set of rows, up to a length.
SeqsUpTo(rows, n) == UNION {[1..k -> rows] : k \in 0..n}

MaxRows == 4

\* Rows of two users at minutes 0, 1 and 3: failed logins, and two rows the
\* filter drops (a successful login, a failed update).
BurstRows ==
    {Event(60 * t, 1, UserId(1, 1), "LOGIN", <<"RES", 1>>, "FAILURE",
           IF t = 1 THEN "10.0.0.2" ELSE "10.0.0.1") : t \in {0, 1, 3}}
    \cup {Event(0, 2, UserId(2, 1), "LOGIN", <<"RES", 1>>, "FAILURE", "10.0.0.3"),
          Event(60, 1, UserId(1, 1), "LOGIN", <<"RES", 1>>, "SUCCESS", "10.0.0.1"),
          Event(0, 1, UserId(1, 1), "UPDATE", <<"RES", 1>>, "FAILURE", "10.0.0.1")}

MaxSpaced == 16

SpacingDraws == {1, 2, 5, 7}

StartDraws == {0, 615}

\* n failed logins of one user, `gap` minutes apart from minute t0 on.
SpacedFailures(n, gap, t0) ==
    [k \in 1..n |-> Event(60 * (t0 + gap * (k - 1)), 1, UserId(1, 1), "LOGIN", <<"RES", 1>>,
                          "FAILURE", IF k % 2 = 0 THEN "185.220.1.1" ELSE "10.0.0.1")]

ThresholdDraws == {0, 1, 2, 3, DefaultThreshold}

WindowDraws == {0, 1, 2, DefaultWindowMinutes}

InitBursts ==
    \/ \E rows \in SeqsUpTo(BurstRows, MaxRows) : DetectorLoaded(rows)
    \/ \E n \in 1..MaxSpaced, gap \in SpacingDraws, t0 \in StartDraws :
           DetectorLoaded(SpacedFailures(n, gap, t0))

\* One call on each loaded frame.
NextBursts ==
    /\ call = NoCall
    /\ \E threshold \in ThresholdDraws, time_window_minutes \in WindowDraws :
           detect_failed_login_bursts(threshold, time_window_minutes)

SpecBursts == InitBursts /\ [][NextBursts]_vars

-----------------------------------------------------------------------------
(* Claims about detect_failed_login_bursts *)

BurstsRan == call.op = "detect_failed_login_bursts"

\* The rows of df that are failed logins of user u.
FailureRows(u) ==
    {i \in DOMAIN df : /\ df[i].user_id = u
                       /\ df[i].event_type = "LOGIN"
                       /\ df[i].status = "FAILURE"}

\* The failed logins of u with a timestamp in [s, s + w], w in minutes.
FailuresWithin(u, s, w) ==
    {i \in FailureRows(u) : df[i].timestamp >= s /\ df[i].timestamp <= s + 60 * w}

\* The timestamps s of failed logins of u whose window [s, s + w] holds at
\* least n failed logins of u.
QualifyingStarts(u, n, w) ==
    {s \in {df[i].timestamp : i \in FailureRows(u)} :
        Cardinality(FailuresWithin(u, s, w)) >= n}

AllUsers == {df[i].user_id : i \in DOMAIN df}

BurstRecordsOf(u) ==
    {k \in DOMAIN failed_login_anomalies : failed_login_anomalies[k].user_id = u}

\* u's only failed logins are 15 events, 2 minutes apart, starting at t0.
FifteenSpacedFailures(u, t0) ==
    /\ Cardinality(FailureRows(u)) = 15
    /\ \A k \in 0..14 :
           Cardinality({i \in FailureRows(u) : df[i].timestamp = t0 + 120 * k}) = 1

DefaultCall ==
    /\ BurstsRan
    /\ call.threshold = 10
    /\ call.time_window_minutes = 60

\* C1 as stated: for a user whose only failed logins are 15 events spaced 2
\* minutes apart from T0, detect_failed_login_bursts(10, 60) returns exactly
\* one record of that user, covering exactly the first 10 events
\* (failure_count = 10, end_time = T0 + 18 minutes).
C1_FirstTenEvents ==
    \A u \in AllUsers : \A t0 \in {df[i].timestamp : i \in DOMAIN df} :
        (DefaultCall /\ FifteenSpacedFailures(u, t0)) =>
            /\ Cardinality(BurstRecordsOf(u)) = 1
            /\ \A k \in BurstRecordsOf(u) :
                   /\ failed_login_anomalies[k].failure_count = 10
                   /\ failed_login_anomalies[k].end_time = t0 + 18 * 60

\* C1 amended: for such a user detect_failed_login_bursts(10, 60) returns
\* exactly one record of that user; it starts at T0 and covers every failed
\* login inside [T0, T0 + 60 minutes], which is all 15 events
\* (failure_count = 15, end_time = T0 + 28 minutes).
C1_WholeWindow ==
    \A u \in AllUsers : \A t0 \in {df[i].timestamp : i \in DOMAIN df} :
        (DefaultCall /\ FifteenSpacedFailures(u, t0)) =>
            /\ Cardinality(BurstRecordsOf(u)) = 1
            /\ \A k \in BurstRecordsOf(u) :
                   /\ failed_login_anomalies[k].start_time = t0
                   /\ failed_login_anomalies[k].failure_count = 15
                   /\ failed_login_anomalies[k].end_time = t0 + 28 * 60

\* The detector has run with the defaults on a frame holding such a user.
C1_Witness ==
    /\ DefaultCall
    /\ \E u \in AllUsers : FifteenSpacedFailures(u, 60 * 615)
    /\ Len(failed_login_anomalies) = 1

\* C2: a user is in the result of detect_failed_login_bursts exactly when one
\* of the user's failed-login timestamps s has at least `threshold` of the
\* user's failed logins in [s, s + window]; the reported start_time is the
\* earliest such s.
C2_ReportedIffQualifying ==
    BurstsRan =>
        \A u \in AllUsers :
            LET starts == QualifyingStarts(u, call.threshold, call.time_window_minutes)
            IN /\ (BurstRecordsOf(u) # {}) <=> (starts # {})
               /\ \A k \in BurstRecordsOf(u) :
                      /\ failed_login_anomalies[k].start_time \in starts
                      /\ \A s \in starts : failed_login_anomalies[k].start_time <= s

\* A user is reported whose earliest failed login does not start a
\* qualifying window, while another user with failed logins is not reported.
C2_Witness ==
    /\ BurstsRan
    /\ \E u \in AllUsers :
           /\ BurstRecordsOf(u) # {}
           /\ \E i \in FailureRows(u) :
                  \A k \in BurstRecordsOf(u) :
                      df[i].timestamp < failed_login_anomalies[k].start_time
    /\ \E v \in AllUsers : FailureRows(v) # {} /\ BurstRecordsOf(v) = {}

\* C3: the result of detect_failed_login_bursts holds at most one record per
\* user_id, also for a user with two or more separate qualifying bursts.
C3_OneRecordPerUser ==
    BurstsRan => \A u \in AllUsers : Cardinality(BurstRecordsOf(u)) <= 1

\* A user with two qualifying windows that do not overlap has one record.
C3_Witness ==
    /\ BurstsRan
    /\ call.threshold >= 2
    /\ \E u \in AllUsers :
           /\ \E s1, s2 \in QualifyingStarts(u, call.threshold, call.time_window_minutes) :
                  s2 > s1 + 60 * call.time_window_minutes
           /\ Cardinality(BurstRecordsOf(u)) = 1

-----------------------------------------------------------------------------
(* Frames for detect_off_hours_activity *)

\* The k-th entry of a pattern that repeats.
Cycle(pattern, k) == pattern[((k - 1) % Len(pattern)) + 1]

\* n rows of one user on consecutive days, at the hours of a repeating
\* pattern, minute 7.
RowsAtHours(tenant_id, ordinal, n, hours) ==
    [k \in 1..n |-> Event(60 * (1440 * k + 60 * Cycle(hours, k) + 7), tenant_id,
                          UserId(tenant_id, ordinal), "UPDATE", <<"RES", k>>,
                          "SUCCESS", "10.0.0.1")]

MaxOffHours == 7

MaxOtherHours == 2

OffHourPatterns == {<<2>>, <<23, 0, 1, 2, 3, 4, 5>>, <<5, 23>>}

OtherHourPattern == <<6, 22, 12>>

\* A second user: absent, with five events at hour 2, or with six events at
\* hour 23 among twenty more during the day.
SecondOffHoursUser ==
    {<<>>,
     RowsAtHours(2, 1, 5, <<2>>),
     RowsAtHours(2, 1, 6, <<23>>) \o RowsAtHours(2, 1, 20, <<12>>)}

InitOffHours ==
    \E a \in 0..MaxOffHours, c \in 0..MaxOtherHours,
       hours \in OffHourPatterns, second \in SecondOffHoursUser :
        DetectorLoaded(RowsAtHours(1, 1, a, hours) \o second
                       \o RowsAtHours(1, 1, c, OtherHourPattern))

NextOffHours ==
    /\ call = NoCall
    /\ detect_off_hours_activity

SpecOffHours == InitOffHours /\ [][NextOffHours]_vars

\* The users in the result of detect_off_hours_activity.
OffHoursUsers == {off_hours_anomalies[k][1] : k \in DOMAIN off_hours_anomalies}

RowsOf(u) == {i \in DOMAIN df : df[i].user_id = u}

\* The rows of u whose hour of day is h.
RowsAtHour(u, h) == {i \in RowsOf(u) : Hour(df[i].timestamp) = h}

NightRows(u) == UNION {RowsAtHour(u, h) : h \in {23, 0, 1, 2, 3, 4, 5}}

\* C4: detect_off_hours_activity flags a user exactly when more than 5 of the
\* user's events have an hour in {23,0,1,2,3,4,5}, whatever the total or the
\* percentage: six events at hour 2 and none elsewhere are flagged, five are
\* not.
C4_OffHoursFlag ==
    call.op = "detect_off_hours_activity" =>
        \A u \in AllUsers :
            /\ (u \in OffHoursUsers) <=> (Cardinality(NightRows(u)) > 5)
            /\ (Cardinality(RowsAtHour(u, 2)) = 6 /\ Cardinality(RowsOf(u)) = 6)
                   => u \in OffHoursUsers
            /\ (Cardinality(RowsAtHour(u, 2)) = 5 /\ Cardinality(RowsOf(u)) = 5)
                   => u \notin OffHoursUsers

\* One user with exactly six events, all at hour 2, is flagged; another with
\* exactly five, all at hour 2, is not.
C4_Witness ==
    /\ call.op = "detect_off_hours_activity"
    /\ \E u, v \in AllUsers :
           /\ Cardinality(RowsAtHour(u, 2)) = 6 /\ Cardinality(RowsOf(u)) = 6
           /\ u \in OffHoursUsers
           /\ Cardinality(RowsAtHour(v, 2)) = 5 /\ Cardinality(RowsOf(v)) = 5
           /\ v \notin OffHoursUsers

-----------------------------------------------------------------------------
(* Frames for detect_unusual_event_types *)

OtherEventTypes == <<"LOGIN", "CREATE", "UPDATE", "DOWNLOAD">>

\* n rows of one user, the first d of them DELETE events.
RowsWithDeletes(tenant_id, ordinal, n, d) ==
    [k \in 1..n |-> Event(60 * (600 + k), tenant_id, UserId(tenant_id, ordinal),
                          IF k <= d THEN "DELETE" ELSE Cycle(OtherEventTypes, k),
                          <<"RES", 1>>, "SUCCESS", "10.0.0.1")]

MaxDeletes == 3

TotalDraws == {1, 49, 50, 51, 52, 99, 100, 101, 150, 151}

\* A second user: absent, or <<total, deletes>>.
SecondEventTypeUser == {<<0, 0>>, <<49, 2>>, <<50, 2>>, <<50, 50>>, <<49, 49>>}

InitEventTypes ==
    \E n \in TotalDraws, d \in 0..MaxDeletes, second \in SecondEventTypeUser :
        /\ d <= n
        /\ DetectorLoaded(RowsWithDeletes(1, 1, n, d)
                          \o RowsWithDeletes(2, 1, second[1], second[2]))

NextEventTypes ==
    /\ call = NoCall
    /\ detect_unusual_event_types

SpecEventTypes == InitEventTypes /\ [][NextEventTypes]_vars

UnusualUsers == {unusual_event_anomalies[k].user_id : k \in DOMAIN unusual_event_anomalies}

DeleteRows(u) == {i \in RowsOf(u) : df[i].event_type = "DELETE"}

\* C5: detect_unusual_event_types flags a user exactly when the share of
\* DELETE events is above 2% (100 * count > 2 * total) and the total is above
\* 50: 2 of 51 is flagged, 2 of 49 is not, a total of exactly 50 never is.
C5_UnusualEventFlag ==
    call.op = "detect_unusual_event_types" =>
        \A u \in AllUsers :
            LET count == Cardinality(DeleteRows(u))
                total == Cardinality(RowsOf(u))
            IN /\ (u \in UnusualUsers) <=> (100 * count > 2 * total /\ total > 50)
               /\ (total = 51 /\ count = 2) => u \in UnusualUsers
               /\ (total = 49 /\ count = 2) => u \notin UnusualUsers
               /\ total = 50 => u \notin UnusualUsers

\* A user with 2 DELETE events of 51 is flagged next to one with 2 of 49 who
\* is not.
C5_Witness ==
    /\ call.op = "detect_unusual_event_types"
    /\ \E u, v \in AllUsers :
           /\ Cardinality(RowsOf(u)) = 51 /\ Cardinality(DeleteRows(u)) = 2
           /\ u \in UnusualUsers
           /\ Cardinality(RowsOf(v)) = 49 /\ Cardinality(DeleteRows(v)) = 2
           /\ v \notin UnusualUsers

-----------------------------------------------------------------------------
(* Frames for detect_suspicious_ip_access *)

\* m rows of one user from the address <<a, b>>, standing for "a.b.0.1".
RowsFromIp(tenant_id, ordinal, m, ip) ==
    [k \in 1..m |-> Event(60 * (600 + k), tenant_id, UserId(tenant_id, ordinal), "LOGIN",
                          <<"RES", 1>>, "SUCCESS", ip)]

\* m rows from each of the addresses 1..k of a pool.
RECURSIVE RowsFromIps(_, _, _, _)
RowsFromIps(tenant_id, ordinal, k, m) ==
    IF k = 0 THEN <<>>
    ELSE RowsFromIps(tenant_id, ordinal, k - 1, m)
         \o RowsFromIp(tenant_id, ordinal, m, <<"185.220", k>>)

MaxExtraIps == 6

BulkDraws == {0, 1, 20, 21, 27}

PerIpDraws == {1, 2, 3, 4}

\* A second user: absent, or 27 rows from one address and 3 rows from each of
\* six more.
SecondIpUser ==
    {<<>>, RowsFromIp(2, 1, 27, <<"10.0", 1>>) \o RowsFromIps(2, 1, 6, 3)}

InitIps ==
    \E b \in BulkDraws, k \in 0..MaxExtraIps, m \in PerIpDraws, second \in SecondIpUser :
        /\ b + k > 0
        /\ DetectorLoaded(RowsFromIp(1, 1, b, <<"10.0", 1>>) \o second
                          \o RowsFromIps(1, 1, k, m))

NextIps ==
    /\ call = NoCall
    /\ detect_suspicious_ip_access

SpecIps == InitIps /\ [][NextIps]_vars

IpsOf(u) == {df[i].ip_address : i \in RowsOf(u)}

RowsWithIp(u, ip) == {i \in RowsOf(u) : df[i].ip_address = ip}

\* More than 10% of the user's events.
PrimaryIps(u) ==
    {ip \in IpsOf(u) : 10 * Cardinality(RowsWithIp(u, ip)) > Cardinality(RowsOf(u))}

\* At most 10% of the user's events, and at least 3 of them.
OccasionalIps(u) ==
    {ip \in IpsOf(u) : /\ 10 * Cardinality(RowsWithIp(u, ip)) <= Cardinality(RowsOf(u))
                       /\ Cardinality(RowsWithIp(u, ip)) >= 3}

IpRecordsOf(u) ==
    {k \in DOMAIN suspicious_ip_anomalies : suspicious_ip_anomalies[k].user_id = u}

\* C7: an IP of a user is primary with more than 10% of the user's events,
\* occasional with at most 10% and at least 3 occurrences, neither otherwise;
\* the user is flagged exactly when the distinct IPs are more than 5 or the
\* occasional ones more than 2; the cap of 5 listed occasional IPs does not
\* change who is flagged.
C7_SuspiciousIpFlag ==
    call.op = "detect_suspicious_ip_access" =>
        \A u \in AllUsers :
            /\ (IpRecordsOf(u) # {}) <=>
                   (Cardinality(IpsOf(u)) > 5 \/ Cardinality(OccasionalIps(u)) > 2)
            /\ \A k \in IpRecordsOf(u) :
                   LET r == suspicious_ip_anomalies[k]
                       listed == {r.suspicious_ips[j][1] : j \in DOMAIN r.suspicious_ips}
                   IN /\ Range(r.primary_ips) = PrimaryIps(u)
                      /\ listed \subseteq OccasionalIps(u)
                      /\ Len(r.suspicious_ips) = Min(5, Cardinality(OccasionalIps(u)))
                      /\ Range(r.primary_ips) \cap listed = {}
                      /\ r.unique_ips = Cardinality(IpsOf(u))

\* One user is flagged by three occasional IPs alone (four distinct IPs);
\* another has six occasional IPs, five of them listed.
C7_Witness ==
    /\ call.op = "detect_suspicious_ip_access"
    /\ \E u, v \in AllUsers :
           /\ Cardinality(IpsOf(u)) = 4 /\ Cardinality(OccasionalIps(u)) = 3
           /\ IpRecordsOf(u) # {}
           /\ Cardinality(OccasionalIps(v)) = 6
           /\ \E k \in IpRecordsOf(v) : Len(suspicious_ip_anomalies[k].suspicious_ips) = 5

-----------------------------------------------------------------------------
(* Frames for generate_summary_report *)

SixIps == <<"185.220.1.1", "198.98.1.1", "176.10.1.1", "91.219.1.1", "5.188.1.1",
            "46.166.1.1">>

\* Ten failed logins of one user from 02:00 to 02:09 from six addresses: the
\* user is a burst, is off hours and has more than five IPs.
NightBurstRows(ordinal) ==
    [k \in 1..10 |-> Event(60 * (120 + k - 1), 1, UserId(1, ordinal), "LOGIN", <<"RES", k>>,
                           "FAILURE", Cycle(SixIps, k))]

\* The rows of the users 1..n, each one a night burst.
RECURSIVE NightBurstUsers(_)
NightBurstUsers(n) ==
    IF n = 0 THEN <<>> ELSE NightBurstUsers(n - 1) \o NightBurstRows(n)

\* The rows of n users of tenant 2 with six events at hour 2 each.
RECURSIVE NightOnlyUsers(_)
NightOnlyUsers(n) ==
    IF n = 0 THEN <<>> ELSE NightOnlyUsers(n - 1) \o RowsAtHours(2, n, 6, <<2>>)

MaxNightBursts == 17

MaxNightOnly == 2

\* A user of tenant 2 with 51 events, two of them DELETE: present or not.
DeleteUserDraws == {<<>>, RowsWithDeletes(2, 100, 51, 2)}

InitReport ==
    \E m \in 0..MaxNightBursts, k \in 0..MaxNightOnly, deleter \in DeleteUserDraws :
        DetectorLoaded(NightBurstUsers(m) \o deleter \o NightOnlyUsers(k))

NextReport ==
    /\ call = NoCall
    /\ generate_summary_report

SpecReport == InitReport /\ [][NextReport]_vars

ReportRan == call.op = "generate_summary_report"

\* The number of the four result lists that hold user u.
CategoriesOf(u) ==
    Cardinality(BurstRecordsOf(u)) + Cardinality(IpRecordsOf(u))
    + Cardinality({k \in DOMAIN unusual_event_anomalies :
                       unusual_event_anomalies[k].user_id = u})
    + Cardinality({k \in DOMAIN off_hours_anomalies : off_hours_anomalies[k][1] = u})

RECURSIVE SumOver(_, _)
SumOver(f, set) ==
    IF set = {} THEN 0
    ELSE LET x == CHOOSE y \in set : TRUE
         IN f[x] + SumOver(f, set \ {x})

\* C6: total_anomalies is the plain sum of the lengths of the four result
\* lists, a user counting once per category; the risk level is HIGH above 50,
\* MEDIUM above 20 up to 50, LOW up to 20 (21 MEDIUM, 51 HIGH, 20 LOW,
\* 50 MEDIUM).
C6_TotalAndRisk ==
    ReportRan =>
        LET total == summary.total_anomalies
        IN /\ total = Len(failed_login_anomalies) + Len(unusual_event_anomalies)
                      + Len(suspicious_ip_anomalies) + Len(off_hours_anomalies)
           /\ total = SumOver([u \in AllUsers |-> CategoriesOf(u)], AllUsers)
           /\ summary.risk_level = "HIGH" <=> total > 50
           /\ summary.risk_level = "MEDIUM" <=> (total > 20 /\ total <= 50)
           /\ summary.risk_level = "LOW" <=> total <= 20
           /\ total = 21 => summary.risk_level = "MEDIUM"
           /\ total = 51 => summary.risk_level = "HIGH"
           /\ total = 20 => summary.risk_level = "LOW"
           /\ total = 50 => summary.risk_level = "MEDIUM"

\* A report with exactly 21 anomalies, graded MEDIUM, made of seven users
\* that are each in three lists.
C6_Witness ==
    /\ ReportRan
    /\ summary.total_anomalies = 21
    /\ summary.risk_level = "MEDIUM"
    /\ Cardinality(AllUsers) = 7
    /\ \A u \in AllUsers : CategoriesOf(u) = 3

-----------------------------------------------------------------------------
(* The random module *)

\* An action draws d, the state of the random stream when the action starts.
Draws == {1, 2}

\* The number that the stream started at d hands to call site `site` in
\* round i of a loop: each site walks through the residues of every small
\* modulus at its own pace.
Rnd(d, i, site) ==
    d * (site + 1) + i * <<11, 13, 17, 19, 23, 29, 31, 37, 41, 43, 47>>[site + 1] + site

\* random.choice(s) and np.random.choice(s, p=...)
Choice(s, r) == s[(r % Len(s)) + 1]

\* random.randint(lo, hi): an end of the range or its middle.
RandInt(lo, hi, r) == Choice(<<lo, hi, (lo + hi) \div 2>>, r)

\* random.uniform(lo, hi), in ticks: an end of the range or its middle, or the
\* tick after one of these when that is still inside the range.
Uniform(lo, hi, r) ==
    LET drawn == Choice(<<lo, (lo + hi) \div 2, hi>>, r)
    IN IF drawn < hi /\ (r \div 3) % 2 = 1 THEN drawn + 1 ELSE drawn

\* random.random() < p
Chance(r) == r % 2 = 0

\* random.sample(population, k) for k <= len(population); a larger k raises
\* ValueError.
Sample(population, k, r) ==
    [i \in 1..k |-> population[((r + i) % Len(population)) + 1]]

\* The records of a list of lists, in order.
RECURSIVE Concat(_)
Concat(lists) ==
    IF lists = <<>> THEN <<>>
    ELSE Concat(SubSeq(lists, 1, Len(lists) - 1)) \o lists[Len(lists)]

\* An append that writes its first record over the last one of the collection.
ExtendOverLast(collection, records) ==
    IF collection = <<>> \/ records = <<>> THEN collection \o records
    ELSE SubSeq(collection, 1, Len(collection) - 1) \o records

\* list.append of each record of `records`, in order.
Extend(collection, records) == collection \o records

\* list.sort(key=lambda x: x['timestamp']): stable, ascending.
SortLogs(collection) == SortSeq(collection, LAMBDA a, b : a.timestamp < b.timestamp)

-----------------------------------------------------------------------------
(* Configuration of both generators *)

\* A datetime of the generators is an integer counting ticks; a second has
\* TicksPerSecond of them, so that a datetime has a part below the second as
\* the microseconds of the source do.
TicksPerSecond == 2

TicksPerMinute == 60 * TicksPerSecond

MinutesPerDay == 24 * 60

TicksPerDay == MinutesPerDay * TicksPerMinute

days_back == 30

\* datetime.now(): one instant for a whole run (day 40, 10:15:07 and a tick).
Now == 40 * TicksPerDay + (10 * 60 + 15) * TicksPerMinute + 7 * TicksPerSecond + 1

\* timestamp.replace(hour=h, minute=m): the date, the seconds and the part
\* below the second stay.
ReplaceHourMinute(t, h, m) ==
    (t \div TicksPerDay) * TicksPerDay + (h * 60 + m) * TicksPerMinute
    + (t % TicksPerMinute)

\* now - timedelta(days=random.uniform(lo, hi))
DaysBefore(lo, hi, r) == Now - Uniform(lo * TicksPerDay, hi * TicksPerDay, r)

\* config['users'] of both tenants (40 and 50 in the source).
UsersPerTenant == 13

\* config['events_per_user'] of both tenants (150 and 200 in the source).
EventsPerUser == 1

FoodEventTypes == <<"LOGIN", "ORDER", "PAYMENT", "UPDATE", "COMPLAINT">>

ITEventTypes == <<"LOGIN", "UPLOAD", "DOWNLOAD", "UPDATE", "ADMIN_ACTION">>

\* SeparateTenantDatasetGenerator.tenant_configs
tenant_configs ==
    [food |-> [tenant_id |-> 1, users |-> UsersPerTenant,
               events_per_user |-> EventsPerUser, event_types |-> FoodEventTypes],
     it   |-> [tenant_id |-> 2, users |-> UsersPerTenant,
               events_per_user |-> EventsPerUser, event_types |-> ITEventTypes]]

\* VaultSphereLogGenerator.tenant_configs, keyed by tenant id.
synthetic_tenant_configs ==
    <<[users |-> UsersPerTenant, events_per_user |-> EventsPerUser,
       event_types |-> FoodEventTypes],
      [users |-> UsersPerTenant, events_per_user |-> EventsPerUser,
       event_types |-> ITEventTypes]>>

user_roles == <<"manager", "employee", "admin", "guest">>

\* The address pools, a few addresses of each.
corporate_ips == <<"10.1.1.1", "10.2.2.2", "10.3.3.3", "192.168.1.1">>

home_ips == <<"24.1.1.1", "50.1.1.1", "73.1.1.1">>

suspicious_ips == <<"185.220.1.1", "198.98.1.1", "176.10.1.1">>

\* f"RES_{random.randint(1, 1000)}"
ResourceId(r) == <<"RES", RandInt(1, 1000, r)>>

\* random.choice(user_info['typical_ips']) if user_info['typical_ips']
\* else random.choice(self.corporate_ips)
TypicalIp(user_info, r) ==
    IF user_info.typical_ips # <<>> THEN Choice(user_info.typical_ips, r)
    ELSE Choice(corporate_ips, r)

\* The profile of user number user_id of a tenant.
CreateUser(tenant_id, user_id, d) ==
    LET i == 3 * user_id + tenant_id
    IN [user_id       |-> UserId(tenant_id, user_id),
        role          |-> Choice(user_roles, Rnd(d, i, 1)),
        typical_ips   |-> IF Chance(Rnd(d, i, 2))
                          THEN Sample(corporate_ips, Min(3, Len(corporate_ips)),
                                      Rnd(d, i, 3))
                          ELSE Sample(home_ips, Min(2, Len(home_ips)), Rnd(d, i, 4)),
        tenant_id     |-> tenant_id,
        local_user_id |-> user_id]

\* Faulty variant: every user of the list is taken, admins too.
AnyRoleUsers(users) == users

\* [u for u in users if u['role'] != 'admin']
NonAdminUsers(users) == SelectSeq(users, LAMBDA u : u.role # "admin")

\* The round of the inner loop's pass j for the u-th selected user.
Round(u, j) == 41 * u + j

-----------------------------------------------------------------------------
(* VaultSphereLogGenerator (generate_synthetic_logs.py) *)

\* The users of one tenant, in creation order.
TenantUsers(tenant_id) == SelectSeq(users_data, LAMBDA u : u.tenant_id = tenant_id)

\* _create_users: the profiles of tenant 1, then those of tenant 2.
SyntheticUsers(d) ==
    Concat([tenant_id \in 1..2 |->
               [user_id \in 1..synthetic_tenant_configs[tenant_id].users |->
                   CreateUser(tenant_id, user_id, d)]])

\* _generate_normal_events: the baseline events of one user.
SyntheticNormalEvents(user_info, num_events, u, d) ==
    LET tenant_events == synthetic_tenant_configs[user_info.tenant_id].event_types
    IN [j \in 1..num_events |->
           LET i == Round(u, j)
               drawn == DaysBefore(0, days_back, Rnd(d, i, 1))
               timestamp == IF Chance(Rnd(d, i, 2))
                            THEN ReplaceHourMinute(drawn, RandInt(9, 17, Rnd(d, i, 3)),
                                                   RandInt(0, 59, Rnd(d, i, 4)))
                            ELSE drawn
           IN Event(timestamp, user_info.tenant_id, user_info.user_id,
                    Choice(tenant_events, Rnd(d, i, 5)), ResourceId(Rnd(d, i, 6)),
                    IF Chance(Rnd(d, i, 7)) THEN "SUCCESS" ELSE "FAILURE",
                    TypicalIp(user_info, Rnd(d, i, 8)))]

\* The burst of one selected user: failed logins inside one interval.
SyntheticBurst(user_info, u, d) ==
    LET burst_start == DaysBefore(1, 25, Rnd(d, u, 1))
        burst_duration == RandInt(10, 120, Rnd(d, u, 2))
        num_attempts == RandInt(10, 30, Rnd(d, u, 3))
    IN [j \in 1..num_attempts |->
           LET i == Round(u, j)
               timestamp == burst_start + Uniform(0, burst_duration * TicksPerMinute,
                                                   Rnd(d, i, 4))
               ip_address == IF Chance(Rnd(d, i, 5))
                             THEN Choice(suspicious_ips, Rnd(d, i, 6))
                             ELSE TypicalIp(user_info, Rnd(d, i, 6))
           IN Event(timestamp, user_info.tenant_id, user_info.user_id, "LOGIN",
                    ResourceId(Rnd(d, i, 7)), "FAILURE", ip_address)]

\* 2 to 4 admin actions of one selected IT user that is no admin.
SyntheticAdminActions(user_info, u, d) ==
    [j \in 1..RandInt(2, 4, Rnd(d, u, 1)) |->
        LET i == Round(u, j)
            timestamp == DaysBefore(1, 28, Rnd(d, i, 2))
                         + (RandInt(0, 23, Rnd(d, i, 3)) * 60
                            + RandInt(0, 59, Rnd(d, i, 4))) * TicksPerMinute
        IN Event(timestamp, user_info.tenant_id, user_info.user_id, "ADMIN_ACTION",
                 ResourceId(Rnd(d, i, 5)), "SUCCESS", TypicalIp(user_info, Rnd(d, i, 6)))]

\* 8 to 15 complaints of one selected Food user.
SyntheticComplaints(user_info, u, d) ==
    [j \in 1..RandInt(8, 15, Rnd(d, u, 7)) |->
        LET i == Round(u, j)
        IN Event(DaysBefore(1, 28, Rnd(d, i, 8)), user_info.tenant_id, user_info.user_id,
                 "COMPLAINT", ResourceId(Rnd(d, i, 9)), "SUCCESS",
                 TypicalIp(user_info, Rnd(d, i, 10)))]

\* The number of users _inject_unusual_ip_access selects.
UnusualIpUsers == 25

\* 3 to 8 events of one selected user from suspicious addresses.
SyntheticUnusualIpEvents(user_info, u, d) ==
    [j \in 1..RandInt(3, 8, Rnd(d, u, 1)) |->
        LET i == Round(u, j)
        IN Event(DaysBefore(1, 25, Rnd(d, i, 2)), user_info.tenant_id, user_info.user_id,
                 Choice(<<"LOGIN", "CREATE", "UPDATE", "DOWNLOAD">>, Rnd(d, i, 3)),
                 <<"RES", user_info.tenant_id, RandInt(1000, 9999, Rnd(d, i, 6))>>,
                 IF Chance(Rnd(d, i, 5)) THEN "SUCCESS" ELSE "FAILURE",
                 Choice(suspicious_ips, Rnd(d, i, 4)))]

\* 5 to 12 events of one selected user between 23:00 and 05:59.
SyntheticOffHoursEvents(user_info, u, d) ==
    [j \in 1..RandInt(5, 12, Rnd(d, u, 1)) |->
        LET i == Round(u, j)
            off_hour == Choice(<<23, 0, 1, 2, 3, 4, 5>>, Rnd(d, i, 3))
            timestamp == ReplaceHourMinute(DaysBefore(1, 20, Rnd(d, i, 2)), off_hour,
                                           RandInt(0, 59, Rnd(d, i, 4)))
            event_type == IF user_info.tenant_id = 1
                          THEN Choice(<<"ORDER", "PAYMENT", "UPDATE">>, Rnd(d, i, 5))
                          ELSE Choice(<<"UPLOAD", "DOWNLOAD", "UPDATE", "ADMIN_ACTION">>,
                                      Rnd(d, i, 5))
        IN Event(timestamp, user_info.tenant_id, user_info.user_id, event_type,
                 ResourceId(Rnd(d, i, 6)), "SUCCESS", TypicalIp(user_info, Rnd(d, i, 7)))]

\* The step and the number of records it appended join the history.
Record(step) ==
    history' = Append(history, [step |-> step, appended |-> Len(logs') - Len(logs)])

\* An injector's step: random.sample of num_anomaly_users of `candidates`
\* raises when the sample is larger than the list; otherwise the records of
\* the sampled users are appended.
Inject(candidates, num_anomaly_users, records, next_pc) ==
    IF num_anomaly_users > Len(candidates)
    THEN /\ pc' = "ValueError"
         /\ UNCHANGED <<logs, injected>>
    ELSE /\ logs' = Extend(logs, records)
         /\ injected' = injected \o records
         /\ pc' = next_pc

\* The records of the sampled users, user after user.
SyntheticBursts(anomaly_users, d) ==
    Concat([u \in DOMAIN anomaly_users |-> SyntheticBurst(anomaly_users[u], u, d)])

SyntheticUnusualIpAccess(anomaly_users, d) ==
    Concat([u \in DOMAIN anomaly_users |->
               SyntheticUnusualIpEvents(anomaly_users[u], u, d)])

SyntheticOffHoursActivity(anomaly_users, d) ==
    Concat([u \in DOMAIN anomaly_users |->
               SyntheticOffHoursEvents(anomaly_users[u], u, d)])

synthetic_create_users ==
    /\ generator = "synthetic"
    /\ pc = "start"
    /\ \E d \in Draws : users_data' = SyntheticUsers(d)
    /\ pc' = "users"
    /\ UNCHANGED <<generator, tenant_key, order, logs, baseline, injected>>
    /\ UNCHANGED detector_vars
    /\ UNCHANGED file
    /\ Record("_create_users")

\* generate_logs, step 2: the baseline of every user; initial_count is taken.
synthetic_generate_normal_events ==
    /\ generator = "synthetic"
    /\ pc = "users"
    /\ \E d \in Draws :
           logs' = Extend(logs,
                          Concat([u \in DOMAIN users_data |->
                                     SyntheticNormalEvents(
                                         users_data[u],
                                         synthetic_tenant_configs[users_data[u].tenant_id]
                                             .events_per_user,
                                         u, d)]))
    /\ baseline' = logs'
    /\ pc' = "baseline"
    /\ UNCHANGED <<generator, tenant_key, order, users_data, injected>>
    /\ UNCHANGED detector_vars
    /\ UNCHANGED file
    /\ Record("_generate_normal_events")

synthetic_inject_failed_login_bursts ==
    /\ generator = "synthetic"
    /\ pc = "baseline"
    /\ \E d \in Draws :
           LET num_anomaly_users == Max(2, (Len(users_data) * 5) \div 100)
           IN Inject(users_data, num_anomaly_users,
                     SyntheticBursts(Sample(users_data, num_anomaly_users, d), d),
                     "failed_login_bursts")
    /\ UNCHANGED <<generator, tenant_key, order, users_data, baseline>>
    /\ UNCHANGED detector_vars
    /\ UNCHANGED file
    /\ Record("_inject_failed_login_bursts")

synthetic_inject_unusual_event_types ==
    /\ generator = "synthetic"
    /\ pc = "failed_login_bursts"
    /\ \E d \in Draws :
           LET it_users == NonAdminUsers(TenantUsers(2))
               food_users == TenantUsers(1)
               it_sample == IF it_users = <<>> THEN <<>>
                            ELSE Sample(it_users, Max(1, (Len(it_users) * 5) \div 100), d)
               food_sample == IF food_users = <<>> THEN <<>>
                              ELSE Sample(food_users,
                                          Max(1, (Len(food_users) * 3) \div 100), d)
               records == Concat([u \in DOMAIN it_sample |->
                                     SyntheticAdminActions(it_sample[u], u, d)])
                          \o Concat([u \in DOMAIN food_sample |->
                                        SyntheticComplaints(food_sample[u], u, d)])
           IN /\ logs' = Extend(logs, records)
              /\ injected' = injected \o records
    /\ pc' = "unusual_event_types"
    /\ UNCHANGED <<generator, tenant_key, order, users_data, baseline>>
    /\ UNCHANGED detector_vars
    /\ UNCHANGED file
    /\ Record("_inject_unusual_event_types")

synthetic_inject_unusual_ip_access ==
    /\ generator = "synthetic"
    /\ pc = "unusual_event_types"
    /\ \E d \in Draws :
           Inject(users_data, UnusualIpUsers,
                  SyntheticUnusualIpAccess(Sample(users_data, UnusualIpUsers, d), d),
                  "unusual_ip_access")
    /\ UNCHANGED <<generator, tenant_key, order, users_data, baseline>>
    /\ UNCHANGED detector_vars
    /\ UNCHANGED file
    /\ Record("_inject_unusual_ip_access")

synthetic_inject_off_hours_activity ==
    /\ generator = "synthetic"
    /\ pc = "unusual_ip_access"
    /\ \E d \in Draws :
           LET num_anomaly_users == Max(2, (Len(users_data) * 5) \div 100)
           IN Inject(users_data, num_anomaly_users,
                     SyntheticOffHoursActivity(Sample(users_data, num_anomaly_users, d), d),
                     "off_hours_activity")
    /\ UNCHANGED <<generator, tenant_key, order, users_data, baseline>>
    /\ UNCHANGED detector_vars
    /\ UNCHANGED file
    /\ Record("_inject_off_hours_activity")

\* Faulty variant: the sort runs as soon as the profiles exist.
generate_logs_sort_first ==
    /\ generator = "synthetic"
    /\ pc = "users"
    /\ logs' = SortLogs(logs)
    /\ pc' = "sorted"
    /\ UNCHANGED <<generator, tenant_key, order, users_data, baseline, injected>>
    /\ UNCHANGED detector_vars
    /\ UNCHANGED file
    /\ Record("sort")

\* generate_logs, step 4: the one sort, then the return.
generate_logs_sort ==
    /\ generator = "synthetic"
    /\ pc = "off_hours_activity"
    /\ logs' = SortLogs(logs)
    /\ pc' = "sorted"
    /\ UNCHANGED <<generator, tenant_key, order, users_data, baseline, injected>>
    /\ UNCHANGED detector_vars
    /\ UNCHANGED file
    /\ Record("sort")

-----------------------------------------------------------------------------
(* SeparateTenantDatasetGenerator (generate_separate_tenant_datasets.py) *)

\* _create_users(tenant_key)
SeparateUsers(key, d) ==
    [user_id \in 1..tenant_configs[key].users |->
        CreateUser(tenant_configs[key].tenant_id, user_id, d)]

\* _generate_normal_events: the baseline events of one user.
SeparateNormalEvents(user_info, num_events, tenant_config, u, d) ==
    [j \in 1..num_events |->
        LET i == Round(u, j)
            drawn == DaysBefore(0, days_back, Rnd(d, i, 1))
            timestamp == IF Chance(Rnd(d, i, 2))
                         THEN ReplaceHourMinute(drawn, RandInt(9, 17, Rnd(d, i, 3)),
                                                RandInt(0, 59, Rnd(d, i, 4)))
                         ELSE ReplaceHourMinute(drawn,
                                                Choice(<<7, 8, 18, 19, 20, 21, 22>>,
                                                       Rnd(d, i, 3)),
                                                RandInt(0, 59, Rnd(d, i, 4)))
        IN Event(timestamp, user_info.tenant_id, user_info.user_id,
                 Choice(tenant_config.event_types, Rnd(d, i, 5)), ResourceId(Rnd(d, i, 6)),
                 IF Chance(Rnd(d, i, 7)) THEN "SUCCESS" ELSE "FAILURE",
                 TypicalIp(user_info, Rnd(d, i, 8)))]

\* Faulty variant: the attempts spread over twice the duration of the burst.
SeparateBurstTwiceAsLong(user_info, u, d) ==
    LET burst_start == DaysBefore(1, 25, Rnd(d, u, 1))
        burst_duration == RandInt(10, 120, Rnd(d, u, 2))
        num_attempts == RandInt(10, 36, Rnd(d, u, 3))
    IN [j \in 1..num_attempts |->
           LET i == Round(u, j)
               timestamp == burst_start + Uniform(0, 2 * burst_duration * TicksPerMinute,
                                                   Rnd(d, i, 4))
               ip_address == IF Chance(Rnd(d, i, 5))
                             THEN Choice(suspicious_ips, Rnd(d, i, 6))
                             ELSE TypicalIp(user_info, Rnd(d, i, 6))
           IN Event(timestamp, user_info.tenant_id, user_info.user_id, "LOGIN",
                    ResourceId(Rnd(d, i, 7)), "FAILURE", ip_address)]

\* The burst of one selected user: failed logins inside one interval.
SeparateBurst(user_info, u, d) ==
    LET burst_start == DaysBefore(1, 25, Rnd(d, u, 1))
        burst_duration == RandInt(10, 120, Rnd(d, u, 2))
        num_attempts == RandInt(10, 36, Rnd(d, u, 3))
    IN [j \in 1..num_attempts |->
           LET i == Round(u, j)
               timestamp == burst_start + Uniform(0, burst_duration * TicksPerMinute,
                                                   Rnd(d, i, 4))
               ip_address == IF Chance(Rnd(d, i, 5))
                             THEN Choice(suspicious_ips, Rnd(d, i, 6))
                             ELSE TypicalIp(user_info, Rnd(d, i, 6))
           IN Event(timestamp, user_info.tenant_id, user_info.user_id, "LOGIN",
                    ResourceId(Rnd(d, i, 7)), "FAILURE", ip_address)]

\* Faulty variant: the hour is drawn from the evening, 18:00 to 22:59.
SeparateEveningEvents(user_info, u, d) ==
    [j \in 1..RandInt(5, 12, Rnd(d, u, 1)) |->
        LET i == Round(u, j)
            off_hour == Choice(<<18, 19, 20, 21, 22>>, Rnd(d, i, 3))
            timestamp == ReplaceHourMinute(DaysBefore(1, 20, Rnd(d, i, 2)), off_hour,
                                           RandInt(0, 59, Rnd(d, i, 4)))
        IN Event(timestamp, user_info.tenant_id, user_info.user_id,
                 Choice(tenant_configs[tenant_key].event_types, Rnd(d, i, 5)),
                 ResourceId(Rnd(d, i, 6)), "SUCCESS", TypicalIp(user_info, Rnd(d, i, 7)))]

\* 5 to 12 events of one selected user between 23:00 and 05:59.
SeparateOffHoursEvents(user_info, u, d) ==
    [j \in 1..RandInt(5, 12, Rnd(d, u, 1)) |->
        LET i == Round(u, j)
            off_hour == Choice(<<23, 0, 1, 2, 3, 4, 5>>, Rnd(d, i, 3))
            timestamp == ReplaceHourMinute(DaysBefore(1, 20, Rnd(d, i, 2)), off_hour,
                                           RandInt(0, 59, Rnd(d, i, 4)))
        IN Event(timestamp, user_info.tenant_id, user_info.user_id,
                 Choice(tenant_configs[tenant_key].event_types, Rnd(d, i, 5)),
                 ResourceId(Rnd(d, i, 6)), "SUCCESS", TypicalIp(user_info, Rnd(d, i, 7)))]

\* 8 to 15 complaints of one selected user.
SeparateComplaints(user_info, u, d) ==
    [j \in 1..RandInt(8, 15, Rnd(d, u, 1)) |->
        LET i == Round(u, j)
        IN Event(DaysBefore(1, 28, Rnd(d, i, 2)), user_info.tenant_id, user_info.user_id,
                 "COMPLAINT", ResourceId(Rnd(d, i, 3)), "SUCCESS",
                 TypicalIp(user_info, Rnd(d, i, 4)))]

\* 2 to 4 admin actions of one selected user that is no admin.
SeparateAdminActions(user_info, u, d) ==
    [j \in 1..RandInt(2, 4, Rnd(d, u, 1)) |->
        LET i == Round(u, j)
        IN Event(DaysBefore(1, 28, Rnd(d, i, 2)), user_info.tenant_id, user_info.user_id,
                 "ADMIN_ACTION", ResourceId(Rnd(d, i, 3)), "SUCCESS",
                 TypicalIp(user_info, Rnd(d, i, 4)))]

\* Faulty variant: the number of events follows the size of the collection.
SeparateSuspiciousIpEventsByLogSize(user_info, u, d) ==
    [j \in 1..(3 + (Len(logs) % 5)) |->
        LET i == Round(u, j)
            tenant_config == IF user_info.tenant_id = 1 THEN tenant_configs.food
                             ELSE tenant_configs.it
        IN Event(DaysBefore(1, 25, Rnd(d, i, 2)), user_info.tenant_id, user_info.user_id,
                 Choice(tenant_config.event_types, Rnd(d, i, 3)), ResourceId(Rnd(d, i, 6)),
                 IF Chance(Rnd(d, i, 5)) THEN "FAILURE" ELSE "SUCCESS",
                 Choice(suspicious_ips, Rnd(d, i, 4)))]

\* 3 to 8 events of one selected user from suspicious addresses.
SeparateSuspiciousIpEvents(user_info, u, d) ==
    [j \in 1..RandInt(3, 8, Rnd(d, u, 1)) |->
        LET i == Round(u, j)
            tenant_config == IF user_info.tenant_id = 1 THEN tenant_configs.food
                             ELSE tenant_configs.it
        IN Event(DaysBefore(1, 25, Rnd(d, i, 2)), user_info.tenant_id, user_info.user_id,
                 Choice(tenant_config.event_types, Rnd(d, i, 3)), ResourceId(Rnd(d, i, 6)),
                 IF Chance(Rnd(d, i, 5)) THEN "FAILURE" ELSE "SUCCESS",
                 Choice(suspicious_ips, Rnd(d, i, 4)))]

\* The records of the sampled users, user after user.
SeparateBursts(anomaly_users, d) ==
    Concat([u \in DOMAIN anomaly_users |-> SeparateBurst(anomaly_users[u], u, d)])

SeparateOffHoursActivity(anomaly_users, d) ==
    Concat([u \in DOMAIN anomaly_users |->
               SeparateOffHoursEvents(anomaly_users[u], u, d)])

SeparateExcessiveComplaints(anomaly_users, d) ==
    Concat([u \in DOMAIN anomaly_users |-> SeparateComplaints(anomaly_users[u], u, d)])

SeparateUnauthorizedAdminActions(anomaly_users, d) ==
    Concat([u \in DOMAIN anomaly_users |-> SeparateAdminActions(anomaly_users[u], u, d)])

SeparateSuspiciousIpAccess(anomaly_users, d) ==
    Concat([u \in DOMAIN anomaly_users |->
               SeparateSuspiciousIpEvents(anomaly_users[u], u, d)])

separate_create_users ==
    /\ generator = "separate"
    /\ pc = "start"
    /\ \E d \in Draws : users_data' = SeparateUsers(tenant_key, d)
    /\ pc' = "users"
    /\ UNCHANGED <<generator, tenant_key, order, logs, baseline, injected>>
    /\ UNCHANGED detector_vars
    /\ UNCHANGED file
    /\ Record("_create_users")

\* generate_tenant_dataset, step 2: the baseline of every user; initial_count
\* is taken.
separate_generate_normal_events ==
    /\ generator = "separate"
    /\ pc = "users"
    /\ \E d \in Draws :
           logs' = Extend(logs,
                          Concat([u \in DOMAIN users_data |->
                                     SeparateNormalEvents(
                                         users_data[u],
                                         tenant_configs[tenant_key].events_per_user,
                                         tenant_configs[tenant_key], u, d)]))
    /\ baseline' = logs'
    /\ pc' = "baseline"
    /\ UNCHANGED <<generator, tenant_key, order, users_data, injected>>
    /\ UNCHANGED detector_vars
    /\ UNCHANGED file
    /\ Record("_generate_normal_events")

\* The injectors in the order in which generate_logs calls them.
synthetic_injectors ==
    <<"_inject_failed_login_bursts", "_inject_unusual_event_types",
      "_inject_unusual_ip_access", "_inject_off_hours_activity">>

\* The injectors in the order in which generate_tenant_dataset calls them.
separate_injectors ==
    <<"_inject_failed_login_bursts", "_inject_off_hours_activity",
      "_inject_tenant_specific_anomalies", "_inject_suspicious_ip_access">>

\* Where a run is once an injector has returned.
PcAfter(step) ==
    CASE step = "_inject_failed_login_bursts"       -> "failed_login_bursts"
      [] step = "_inject_off_hours_activity"        -> "off_hours_activity"
      [] step = "_inject_tenant_specific_anomalies" -> "tenant_specific_anomalies"
      [] step = "_inject_suspicious_ip_access"      -> "suspicious_ip_access"

\* Where a run is when it calls an injector: after the baseline for the first
\* injector of the order, after the injector before it for another.
PcBefore(step) ==
    LET k == CHOOSE i \in DOMAIN order : order[i] = step
    IN IF k = 1 THEN "baseline" ELSE PcAfter(order[k - 1])

\* An injector of the per-tenant generator, given the draw it starts from:
\* the list it samples from, the size of the sample and the records of the
\* sampled users.  The IT injector of admin actions does nothing when every
\* user is an admin.
SeparateInjection(step, d) ==
    CASE step = "_inject_failed_login_bursts" ->
             LET num_anomaly_users == Min(8, Len(users_data))
             IN [candidates        |-> users_data,
                 num_anomaly_users |-> num_anomaly_users,
                 records |-> SeparateBursts(Sample(users_data, num_anomaly_users, d), d)]
      [] step = "_inject_off_hours_activity" ->
             LET num_anomaly_users == Max(5, (Len(users_data) * 3) \div 10)
             IN [candidates        |-> users_data,
                 num_anomaly_users |-> num_anomaly_users,
                 records |-> SeparateOffHoursActivity(
                                 Sample(users_data, num_anomaly_users, d), d)]
      [] step = "_inject_tenant_specific_anomalies" /\ tenant_key = "food" ->
             LET num_anomaly_users == Max(3, Len(users_data) \div 10)
             IN [candidates        |-> users_data,
                 num_anomaly_users |-> num_anomaly_users,
                 records |-> SeparateExcessiveComplaints(
                                 Sample(users_data, num_anomaly_users, d), d)]
      [] step = "_inject_tenant_specific_anomalies" /\ tenant_key # "food" ->
             LET non_admin_users == NonAdminUsers(users_data)
                 num_anomaly_users == IF non_admin_users = <<>> THEN 0
                                      ELSE Max(2, Len(non_admin_users) \div 10)
             IN [candidates        |-> non_admin_users,
                 num_anomaly_users |-> num_anomaly_users,
                 records |-> IF non_admin_users = <<>> THEN <<>>
                             ELSE SeparateUnauthorizedAdminActions(
                                      Sample(non_admin_users, num_anomaly_users, d), d)]
      [] step = "_inject_suspicious_ip_access" ->
             LET num_anomaly_users == Max(3, (Len(users_data) * 2) \div 10)
             IN [candidates        |-> users_data,
                 num_anomaly_users |-> num_anomaly_users,
                 records |-> SeparateSuspiciousIpAccess(
                                 Sample(users_data, num_anomaly_users, d), d)]

\* The call of an injector of the per-tenant generator.
SeparateInject(step) ==
    /\ generator = "separate"
    /\ pc = PcBefore(step)
    /\ \E d \in Draws :
           LET injection == SeparateInjection(step, d)
           IN Inject(injection.candidates, injection.num_anomaly_users,
                     injection.records, PcAfter(step))
    /\ UNCHANGED <<generator, tenant_key, order, users_data, baseline>>
    /\ UNCHANGED detector_vars
    /\ UNCHANGED file
    /\ Record(step)

separate_inject_failed_login_bursts == SeparateInject("_inject_failed_login_bursts")

separate_inject_off_hours_activity == SeparateInject("_inject_off_hours_activity")

separate_inject_tenant_specific_anomalies ==
    SeparateInject("_inject_tenant_specific_anomalies")

separate_inject_suspicious_ip_access == SeparateInject("_inject_suspicious_ip_access")

\* generate_tenant_dataset, step 4: the one sort, then the return.
generate_tenant_dataset_sort ==
    /\ generator = "separate"
    /\ pc = PcAfter(order[Len(order)])
    /\ logs' = SortLogs(logs)
    /\ pc' = "sorted"
    /\ UNCHANGED <<generator, tenant_key, order, users_data, baseline, injected>>
    /\ UNCHANGED detector_vars
    /\ UNCHANGED file
    /\ Record("sort")

-----------------------------------------------------------------------------
(* save_to_csv of both generators *)

SecondsPerDay == 24 * 60 * 60

\* A format that leaves the date out: '%H:%M:%S'.
StrftimeTimeOnly(t) ==
    LET seconds == t \div TicksPerSecond
    IN <<(seconds \div 3600) % 24, (seconds \div 60) % 60, seconds % 60>>

\* .dt.strftime('%Y-%m-%d %H:%M:%S'): the text of a datetime, as the tuple of
\* its fields from left to right: the date (the number of its day), the hour,
\* the minute and the second.  What is below the second is not written.
Strftime(t) ==
    LET seconds == t \div TicksPerSecond
    IN <<seconds \div SecondsPerDay, (seconds \div 3600) % 24, (seconds \div 60) % 60,
         seconds % 60>>

\* column_order of save_to_csv, the same list in both generators.
column_order ==
    <<"timestamp", "tenant_id", "user_id", "event_type", "resource_id", "status",
      "ip_address">>

\* pd.DataFrame(logs), the timestamp column as text, the columns in
\* column_order, to_csv(index=False): a header line and one line per record,
\* each line the values under the header's names.
SaveToCsv(collection) ==
    LET text(e) == [e EXCEPT !.timestamp = Strftime(e.timestamp)]
    IN [written |-> TRUE,
        header  |-> column_order,
        rows    |-> [k \in DOMAIN collection |->
                        [c \in DOMAIN column_order |-> text(collection[k])[column_order[c]]]]]

\* main(): generator.save_to_csv() after generate_logs() has returned.
synthetic_save_to_csv ==
    /\ generator = "synthetic"
    /\ pc = "sorted"
    /\ file' = SaveToCsv(logs)
    /\ pc' = "saved"
    /\ UNCHANGED <<generator, tenant_key, order, users_data, logs, baseline, injected>>
    /\ UNCHANGED detector_vars
    /\ Record("save_to_csv")

\* generate_all_datasets: self.save_to_csv(logs, filename) after
\* generate_tenant_dataset has returned.
separate_save_to_csv ==
    /\ generator = "separate"
    /\ pc = "sorted"
    /\ file' = SaveToCsv(logs)
    /\ pc' = "saved"
    /\ UNCHANGED <<generator, tenant_key, order, users_data, logs, baseline, injected>>
    /\ UNCHANGED detector_vars
    /\ Record("save_to_csv")

-----------------------------------------------------------------------------
(* Runs of the generators *)

InitGen ==
    /\ DetectorConstructed(<<>>)
    /\ MainIdle
    /\ \/ generator = "synthetic" /\ tenant_key = "all" /\ order = synthetic_injectors
       \/ generator = "separate" /\ tenant_key \in {"food", "it"}
                                 /\ order = separate_injectors
    /\ users_data = <<>>
    /\ logs = <<>>
    /\ baseline = <<>>
    /\ injected = <<>>
    /\ history = <<>>
    /\ file = NoFile
    /\ pc = "start"

NextGen ==
    \/ synthetic_create_users
    \/ synthetic_generate_normal_events
    \/ synthetic_inject_failed_login_bursts
    \/ synthetic_inject_unusual_event_types
    \/ synthetic_inject_unusual_ip_access
    \/ synthetic_inject_off_hours_activity
    \/ generate_logs_sort
    \/ separate_create_users
    \/ separate_generate_normal_events
    \/ separate_inject_failed_login_bursts
    \/ separate_inject_off_hours_activity
    \/ separate_inject_tenant_specific_anomalies
    \/ separate_inject_suspicious_ip_access
    \/ generate_tenant_dataset_sort
    \/ synthetic_save_to_csv
    \/ separate_save_to_csv

SpecGen == InitGen /\ [][NextGen]_vars

\* "RES_<n>" with n in 1..1000
IsResourceId(resource_id) ==
    /\ Len(resource_id) = 2
    /\ resource_id[1] = "RES"
    /\ resource_id[2] \in 1..1000

\* C8: every event of a dataset of either generator, baseline or injected, has
\* a resource_id of the form RES_<n> with n an integer from 1 to 1000.
C8_ResourceIds ==
    \A k \in DOMAIN logs : IsResourceId(logs[k].resource_id)

\* The vocabulary configured for a tenant id; none for an id that is not
\* configured.
Vocabulary(tenant_id) ==
    IF tenant_id = tenant_configs.food.tenant_id THEN Range(tenant_configs.food.event_types)
    ELSE IF tenant_id = tenant_configs.it.tenant_id THEN Range(tenant_configs.it.event_types)
    ELSE {}

\* C9: every event of a dataset of either generator, baseline or injected, has
\* a configured tenant_id and an event_type of that tenant's vocabulary.
C9_TenantVocabulary ==
    \A k \in DOMAIN logs : logs[k].event_type \in Vocabulary(logs[k].tenant_id)

Occurrences(collection, e) == Cardinality({k \in DOMAIN collection : collection[k] = e})

Injecting ==
    pc \in {"failed_login_bursts", "unusual_event_types", "unusual_ip_access",
            "off_hours_activity", "tenant_specific_anomalies", "suspicious_ip_access"}

\* C10: injection is additive.  While the injectors run the collection is the
\* baseline followed by the injected records; after all of them, and after
\* the sort, every baseline record is in the collection as often as before
\* (plus its injected copies), and the length of the collection is the
\* baseline count plus the number of injected records.
C10_InjectionAdditive ==
    (Injecting \/ pc = "sorted") =>
        /\ Len(logs) = Len(baseline) + Len(injected)
        /\ \A e \in Range(baseline) :
               Occurrences(logs, e) = Occurrences(baseline, e) + Occurrences(injected, e)
        /\ Injecting => logs = baseline \o injected

\* A sorted dataset of the per-tenant generator that holds more injected
\* than baseline records, in another order than they were appended in.
C10_Witness ==
    /\ pc = "sorted"
    /\ generator = "separate"
    /\ baseline # <<>>
    /\ Len(injected) > Len(baseline)
    /\ logs # baseline \o injected
    /\ \E k \in DOMAIN logs : \E m \in DOMAIN injected : logs[k] = injected[m]

\* The value of a line of a CSV file under a column's name.
Cell(csv, k, name) ==
    csv.rows[k][CHOOSE c \in DOMAIN csv.header : csv.header[c] = name]

\* The order of two texts of equal length, character after character: a is
\* before b, or a is b.
RECURSIVE TextLeq(_, _)
TextLeq(a, b) ==
    \/ a = <<>>
    \/ a[1] < b[1]
    \/ a[1] = b[1] /\ TextLeq(Tail(a), Tail(b))

\* C11: in the file that save_to_csv of either generator writes, the rows are
\* in non-decreasing order of the written timestamp, which has the precision
\* of a second, and there is one row for each generated event.
C11_RowsInWrittenOrder ==
    file.written =>
        /\ Len(file.rows) = Len(logs)
        /\ Len(file.rows) = Len(baseline) + Len(injected)
        /\ \A k \in 1..(Len(file.rows) - 1) :
               TextLeq(Cell(file, k, "timestamp"), Cell(file, k + 1, "timestamp"))

\* A written file of more than a hundred rows in which two rows that follow
\* each other carry one text for two different datetimes, and two others
\* carry a later date with an earlier time of day.
C11_Witness ==
    /\ file.written
    /\ Len(file.rows) > 100
    /\ \E k \in 1..(Len(logs) - 1) :
           /\ logs[k].timestamp < logs[k + 1].timestamp
           /\ Cell(file, k, "timestamp") = Cell(file, k + 1, "timestamp")
    /\ \E k \in 1..(Len(file.rows) - 1) :
           /\ Cell(file, k, "timestamp")[1] < Cell(file, k + 1, "timestamp")[1]
           /\ Cell(file, k, "timestamp")[2] > Cell(file, k + 1, "timestamp")[2]

\* The steps of a run of each generator, in the order of the calls in
\* generate_logs and main, and in generate_tenant_dataset and
\* generate_all_datasets.
PhaseOrder ==
    <<"_create_users", "_generate_normal_events">> \o order \o <<"sort", "save_to_csv">>

\* Steps 3 to 6 of a run are the injectors.
InjectorSteps == {PhaseOrder[k] : k \in 3..6}

\* The numbers of profiles and of baseline events that the configuration of
\* the run asks for.
ConfiguredUsers ==
    IF generator = "synthetic"
    THEN synthetic_tenant_configs[1].users + synthetic_tenant_configs[2].users
    ELSE tenant_configs[tenant_key].users

ConfiguredBaseline ==
    IF generator = "synthetic"
    THEN synthetic_tenant_configs[1].users * synthetic_tenant_configs[1].events_per_user
         + synthetic_tenant_configs[2].users * synthetic_tenant_configs[2].events_per_user
    ELSE tenant_configs[tenant_key].users * tenant_configs[tenant_key].events_per_user

\* C12: a generation run goes through its phases in one fixed order: all
\* profiles are created, then all baseline events are appended, then the
\* injectors run, then the collection is sorted exactly once, then it is
\* written.  No event is appended after the sort, and no injector runs
\* before the last baseline event is appended.
C12_PhaseOrder ==
    /\ Len(history) <= Len(PhaseOrder)
    /\ \A k \in DOMAIN history : history[k].step = PhaseOrder[k]
    /\ Len(history) >= 1 => Len(users_data) = ConfiguredUsers
    /\ Len(history) >= 2 => /\ history[2].appended = ConfiguredBaseline
                            /\ Len(baseline) = ConfiguredBaseline
    /\ \A k \in DOMAIN history :
           history[k].appended # 0 =>
               history[k].step \in InjectorSteps \cup {"_generate_normal_events"}
    /\ \A k \in DOMAIN history :
           history[k].step \in InjectorSteps =>
               SubSeq(logs, 1, ConfiguredBaseline) = baseline \/ Len(history) >= 7
    /\ file.written <=> Len(history) = Len(PhaseOrder)

\* A run of the per-tenant generator that got to the end, every injector of
\* which appended records.
C12_Witness ==
    /\ generator = "separate"
    /\ pc = "saved"
    /\ Len(history) = Len(PhaseOrder)
    /\ \A k \in 3..6 : history[k].appended > 0
    /\ history[7].appended = 0
    /\ history[8].appended = 0

-----------------------------------------------------------------------------
(* Runs of the per-tenant generator with its injectors in any order *)

AnyOrders ==
    {p \in [DOMAIN separate_injectors -> Range(separate_injectors)] :
        Range(p) = Range(separate_injectors)}

InitAnyOrder ==
    /\ DetectorConstructed(<<>>)
    /\ MainIdle
    /\ generator = "separate"
    /\ tenant_key \in {"food", "it"}
    /\ order \in AnyOrders
    /\ users_data = <<>>
    /\ logs = <<>>
    /\ baseline = <<>>
    /\ injected = <<>>
    /\ history = <<>>
    /\ file = NoFile
    /\ pc = "start"

NextAnyOrder ==
    \/ separate_create_users
    \/ separate_generate_normal_events
    \/ separate_inject_failed_login_bursts
    \/ separate_inject_off_hours_activity
    \/ separate_inject_tenant_specific_anomalies
    \/ separate_inject_suspicious_ip_access
    \/ generate_tenant_dataset_sort

SpecAnyOrder == InitAnyOrder /\ [][NextAnyOrder]_vars

\* The records that an injector appended in this run, by the history.
AppendedBy(step) ==
    LET k == CHOOSE i \in DOMAIN history : history[i].step = step
        before == SumOver([i \in 3..(k - 1) |-> history[i].appended], 3..(k - 1))
    IN SubSeq(injected, before + 1, before + history[k].appended)

\* The draws of the four injectors.
InjectorDraws == [Range(separate_injectors) -> Draws]

\* The draws reproduce what each injector appended in this run.
DrawsOfRun(draws) ==
    \A step \in Range(separate_injectors) :
        SeparateInjection(step, draws[step]).records = AppendedBy(step)

\* The dataset of the run that calls the injectors in the order of the source
\* with these draws, from the profiles and the baseline of this run.
SourceOrderDataset(draws) ==
    SortLogs(baseline
             \o Concat([k \in DOMAIN separate_injectors |->
                           SeparateInjection(separate_injectors[k],
                                             draws[separate_injectors[k]]).records]))

\* Two datasets with the same timestamps row after row, and with the same
\* records as often wherever their rows differ: they differ at most in the
\* order of records that have one timestamp.
SameUpToTies(a, b) ==
    /\ Len(a) = Len(b)
    /\ \A k \in DOMAIN a : a[k].timestamp = b[k].timestamp
    /\ \A k \in DOMAIN a :
           a[k] # b[k] => /\ Occurrences(a, a[k]) = Occurrences(b, a[k])
                          /\ Occurrences(a, b[k]) = Occurrences(b, b[k])

\* C13 as stated: the injectors are independent of their order, so the
\* sorted dataset of a run with the injectors in any order is a dataset that
\* the order of the source can produce.
C13_SameDatasets ==
    pc = "sorted" => \E draws \in InjectorDraws : logs = SourceOrderDataset(draws)

\* C13, amended: what an injector appends depends on the profiles and on its
\* own draws only, whatever ran before it, and the sorted dataset of a run
\* with the injectors in any order differs from the dataset of the source's
\* order with the same draws at most in the order of records that have one
\* timestamp.
C13_SameUpToTies ==
    pc = "sorted" =>
        \E draws \in InjectorDraws :
            /\ DrawsOfRun(draws)
            /\ SameUpToTies(logs, SourceOrderDataset(draws))

\* A sorted dataset of a run in another order than the source's that no
\* draws of the source's order produce.
C13_Witness ==
    /\ pc = "sorted"
    /\ order # separate_injectors
    /\ \A step \in Range(separate_injectors) : AppendedBy(step) # <<>>
    /\ \A draws \in InjectorDraws : logs # SourceOrderDataset(draws)

-----------------------------------------------------------------------------
(* main() of analyze_anomalies.py, analyze_tenant_logs.py and              *)
(* analyze_separate_datasets.py                                            *)

\* A file on disk with the header of the generators and these lines.
InputFile(rows) == [written |-> TRUE, header |-> column_order, rows |-> rows]

\* A text that pd.to_datetime reads as a datetime: a date, an hour of the
\* day, a minute and a second.
IsDatetimeText(text) ==
    /\ Len(text) = 4
    /\ text[2] \in 0..23
    /\ text[3] \in 0..59
    /\ text[4] \in 0..59

\* pd.to_datetime of a text '%Y-%m-%d %H:%M:%S': the datetime, in seconds.
ToDatetime(text) == ((text[1] * 24 + text[2]) * 60 + text[3]) * 60 + text[4]

\* pd.to_datetime(df['timestamp']) raises when one text of the column is no
\* datetime.
TimestampsParse(csv) ==
    {k \in DOMAIN csv.rows : ~IsDatetimeText(Cell(csv, k, "timestamp"))} = {}

\* pd.read_csv, then pd.to_datetime on the timestamp column: every line of
\* the file is a row of the frame; no other column is looked at.
LoadFrame(csv) ==
    [k \in DOMAIN csv.rows |->
        Event(ToDatetime(Cell(csv, k, "timestamp")), Cell(csv, k, "tenant_id"),
              Cell(csv, k, "user_id"), Cell(csv, k, "event_type"),
              Cell(csv, k, "resource_id"), Cell(csv, k, "status"),
              Cell(csv, k, "ip_address"))]

\* analyze_anomalies.main, first statement: VaultSphereAnomalyDetector().
\* Nothing catches what read_csv or to_datetime raise.
analyze_anomalies_init ==
    /\ entry = "analyze_anomalies"
    /\ outcome = "called"
    /\ IF ~input.written
       THEN outcome' = "FileNotFoundError" /\ UNCHANGED df
       ELSE IF ~TimestampsParse(input)
            THEN outcome' = "ValueError" /\ UNCHANGED df
            ELSE outcome' = "constructed" /\ df' = LoadFrame(input)
    /\ UNCHANGED <<call, failed_login_anomalies, unusual_event_anomalies,
                   suspicious_ip_anomalies, off_hours_anomalies, summary>>
    /\ UNCHANGED <<entry, input, active_users, validation>>
    /\ UNCHANGED generator_vars

\* analyze_anomalies.main, second statement: detector.generate_summary_report().
analyze_anomalies_report ==
    /\ entry = "analyze_anomalies"
    /\ outcome = "constructed"
    /\ generate_summary_report

\* Faulty variant: more than 5 off-hours events are asked for.
ActiveUsersAbove5(rows) ==
    LET off_hours_events == SelectSeq(rows, LAMBDA e : e.hour >= 23 \/ e.hour <= 5)
    IN {<<u, Len(UserEvents(off_hours_events, u))>> :
           u \in {v \in Range(Column(off_hours_events, "user_id")) :
                      Len(UserEvents(off_hours_events, v)) > 5}}

\* detect_anomalies, part 2, on the frame with its hour column: the rows with
\* hour >= 23 or hour <= 5, grouped by user; active_users are the groups of
\* size 5 and more, each with its size.
ActiveUsers(rows) ==
    LET off_hours_events == SelectSeq(rows, LAMBDA e : e.hour >= 23 \/ e.hour <= 5)
    IN {<<u, Len(UserEvents(off_hours_events, u))>> :
           u \in {v \in Range(Column(off_hours_events, "user_id")) :
                      Len(UserEvents(off_hours_events, v)) >= 5}}

\* analyze_tenant_logs.main: load_and_analyze_logs, detect_anomalies and
\* generate_summary_report inside try; FileNotFoundError and every other
\* exception end the analysis with a printed message.  detect_anomalies adds
\* the hour column and divides by len(df) before it looks for the users with
\* off-hours events.
analyze_tenant_logs_main ==
    /\ entry = "analyze_tenant_logs"
    /\ outcome = "called"
    /\ IF ~input.written
       THEN outcome' = "file_not_found_message" /\ UNCHANGED <<df, active_users>>
       ELSE IF ~TimestampsParse(input)
            THEN outcome' = "error_message" /\ UNCHANGED <<df, active_users>>
            ELSE /\ df' = AddHourColumn(LoadFrame(input))
                 /\ IF input.rows = <<>>
                    THEN outcome' = "error_message" /\ UNCHANGED active_users
                    ELSE /\ outcome' = "completed"
                         /\ active_users' = ActiveUsers(AddHourColumn(LoadFrame(input)))
    /\ UNCHANGED <<call, failed_login_anomalies, unusual_event_anomalies,
                   suspicious_ip_anomalies, off_hours_anomalies, summary>>
    /\ UNCHANGED <<entry, input, validation>>
    /\ UNCHANGED generator_vars

\* analyze_separate_datasets.main: analyze_dataset of the two files, which
\* are taken to be in one condition; nothing catches an exception.
\* analyze_dataset adds the hour column and divides by len(df).
analyze_separate_datasets_main ==
    /\ entry = "analyze_separate_datasets"
    /\ outcome = "called"
    /\ IF ~input.written
       THEN outcome' = "FileNotFoundError" /\ UNCHANGED df
       ELSE IF ~TimestampsParse(input)
            THEN outcome' = "ValueError" /\ UNCHANGED df
            ELSE /\ df' = AddHourColumn(LoadFrame(input))
                 /\ outcome' = IF input.rows = <<>> THEN "ZeroDivisionError"
                               ELSE "completed"
    /\ UNCHANGED <<call, failed_login_anomalies, unusual_event_anomalies,
                   suspicious_ip_anomalies, off_hours_anomalies, summary>>
    /\ UNCHANGED <<entry, input, active_users, validation>>
    /\ UNCHANGED generator_vars

Programs == {"analyze_anomalies", "analyze_tenant_logs", "analyze_separate_datasets"}

MaxInputRows == 3

\* Lines of an input file: two well-formed ones, one whose hour is 25, one
\* whose resource id does not start with RES, one whose resource id has a
\* part too many.
InputRows ==
    {<<<<5, 10, 0, 0>>, 1, UserId(1, 1), "LOGIN", <<"RES", 7>>, "FAILURE", "10.1.1.1">>,
     <<<<5, 23, 30, 0>>, 2, UserId(2, 1), "UPDATE", <<"RES", 9>>, "SUCCESS", "24.1.1.1">>,
     <<<<5, 25, 0, 0>>, 1, UserId(1, 2), "LOGIN", <<"RES", 7>>, "SUCCESS", "10.1.1.1">>,
     <<<<5, 11, 0, 0>>, 1, UserId(1, 3), "ORDER", <<"FILE", 7>>, "SUCCESS", "10.1.1.1">>,
     <<<<6, 12, 0, 0>>, 2, UserId(2, 2), "UPLOAD", <<"RES", 2, 9999>>, "SUCCESS",
       "24.1.1.1">>}

InitMain ==
    /\ DetectorConstructed(<<>>)
    /\ entry \in Programs
    /\ \/ input = NoFile
       \/ \E rows \in SeqsUpTo(InputRows, MaxInputRows) : input = InputFile(rows)
    /\ outcome = "called"
    /\ active_users = {}
    /\ validation = <<>>
    /\ GeneratorIdle

NextMain ==
    \/ analyze_anomalies_init
    \/ analyze_anomalies_report
    \/ analyze_tenant_logs_main
    \/ analyze_separate_datasets_main

SpecMain == InitMain /\ [][NextMain]_vars

\* main() has ended, one way or the other.
MainEnded == outcome \notin {"idle", "called", "constructed"}

\* C14: when the input file is absent, every detector entry point reports a
\* message to the user and ends without an uncaught exception.
C14_MissingInputReported ==
    (MainEnded /\ ~input.written) => outcome = "file_not_found_message"

\* C15: for every well-formed dataset, one in which no user is flagged and
\* one without any event included, generate_summary_report runs to its end
\* and returns its four lists; it never ends in an error.
C15_ReportCompletes ==
    ReportRan => summary.returned

\* The lines of a file that follow the schema: the timestamp is a datetime
\* and the resource id is RES_<int>.
WellFormedLines(csv) ==
    {k \in DOMAIN csv.rows :
        /\ IsDatetimeText(Cell(csv, k, "timestamp"))
        /\ Len(Cell(csv, k, "resource_id")) = 2
        /\ Cell(csv, k, "resource_id")[1] = "RES"}

\* C16: a malformed row of the input does not abort the analysis: the
\* remaining rows are still analysed, and the malformed row is not counted
\* in any statistic.  Here for a file with at least one well-formed and one
\* malformed line: main() completes and the frame that the statistics are
\* taken from holds the well-formed lines only.
C16_MalformedRowsSkipped ==
    (/\ MainEnded
     /\ input.written
     /\ WellFormedLines(input) # {}
     /\ WellFormedLines(input) # DOMAIN input.rows)
        => /\ outcome = "completed"
           /\ Len(df) = Cardinality(WellFormedLines(input))

\* The two ways in which C16 fails: an analysis that ended on the line with
\* hour 25, and an analysis that completed with a malformed resource id among
\* its rows.
C16_Aborted ==
    /\ MainEnded
    /\ input.written
    /\ WellFormedLines(input) # {}
    /\ outcome \in {"ValueError", "error_message"}

C16_Merged ==
    /\ outcome = "completed"
    /\ \E k \in DOMAIN df : df[k].resource_id[1] # "RES"

-----------------------------------------------------------------------------
(* The detector run twice on one file *)

\* The text of a datetime of the detector, as the generators write it.
DatetimeText(t) == <<t \div SecondsPerDay, (t \div 3600) % 24, (t \div 60) % 60, t % 60>>

\* The lines of the file that holds these rows.
FrameLines(rows) ==
    [k \in DOMAIN rows |->
        [c \in DOMAIN column_order |->
            IF column_order[c] = "timestamp" THEN DatetimeText(rows[k].timestamp)
            ELSE rows[k][column_order[c]]]]

\* VaultSphereAnomalyDetector(csv_file) once more, on the file of the first
\* detector; the caller still holds what the first report returned.
VaultSphereAnomalyDetector_init ==
    /\ generator = "none"
    /\ entry = "none"
    /\ input.written
    /\ TimestampsParse(input)
    /\ ReportRan
    /\ df' = LoadFrame(input)
    /\ call' = NoCall
    /\ UNCHANGED <<failed_login_anomalies, unusual_event_anomalies,
                   suspicious_ip_anomalies, off_hours_anomalies, summary>>
    /\ UNCHANGED main_vars
    /\ UNCHANGED generator_vars

InitTwice ==
    \E m \in 0..MaxNightBursts, k \in 0..MaxNightOnly, deleter \in DeleteUserDraws :
        LET rows == NightBurstUsers(m) \o deleter \o NightOnlyUsers(k)
        IN /\ DetectorConstructed(rows)
           /\ entry = "none"
           /\ input = InputFile(FrameLines(rows))
           /\ outcome = "idle"
           /\ active_users = {}
           /\ validation = <<>>
           /\ GeneratorIdle

NextTwice ==
    \/ generate_summary_report
    \/ VaultSphereAnomalyDetector_init

SpecTwice == InitTwice /\ [][NextTwice]_vars

\* The users of the four lists, in the order of the lists.
FlaggedUsers ==
    <<Column(failed_login_anomalies, "user_id"),
      Column(unusual_event_anomalies, "user_id"),
      Column(suspicious_ip_anomalies, "user_id"),
      [i \in DOMAIN off_hours_anomalies |-> off_hours_anomalies[i][1]]>>

\* C17: running the detector twice on the same input, on a fresh detector or
\* on the same instance, whose table has gained the hour column in the first
\* run, yields the same lists of flagged users in the same order for all
\* four detectors, and the same total and risk level.
C17_Idempotent ==
    [][(summary # NoSummary /\ call'.op = "generate_summary_report")
           => /\ FlaggedUsers' = FlaggedUsers
              /\ summary' = summary]_vars

\* A fresh detector on the file of a report that flagged users in all four
\* lists, two at least in the list of bursts: the second report is about to
\* run.
C17_Witness ==
    /\ call = NoCall
    /\ summary.returned
    /\ df = LoadFrame(input)
    /\ Len(failed_login_anomalies) >= 2
    /\ unusual_event_anomalies # <<>>
    /\ suspicious_ip_anomalies # <<>>
    /\ Len(off_hours_anomalies) >= 2

-----------------------------------------------------------------------------
(* validate_dataset (validate_enhanced_datasets.py) *)

\* expected_columns: a file passes the column check when list(df.columns) is
\* this list.
expected_columns ==
    <<"timestamp", "tenant_id", "user_id", "resource_id", "event_type", "status",
      "ip_address", "anomaly_injected">>

\* C18: the header of every file that the generators write lists the columns
\* in the order timestamp, tenant_id, user_id, resource_id, event_type,
\* status, ip_address, with or without anomaly_injected after them, which is
\* the order that validate_dataset checks for.
C18_HeaderOrder ==
    file.written =>
        \/ file.header = expected_columns
        \/ file.header = SubSeq(expected_columns, 1, Len(expected_columns) - 1)

-----------------------------------------------------------------------------
(* What the injectors append *)

\* The step of a run that injects admin actions of users that are no admins:
\* _inject_unusual_event_types of generate_synthetic_logs.py, and
\* _inject_tenant_specific_anomalies of the per-tenant generator.
PrivilegedStep ==
    IF generator = "synthetic" THEN "_inject_unusual_event_types"
    ELSE "_inject_tenant_specific_anomalies"

HasRun(step) == \E i \in DOMAIN history : history[i].step = step

\* The admin actions that this step appended.
PrivilegedEvents ==
    IF HasRun(PrivilegedStep)
    THEN SelectSeq(AppendedBy(PrivilegedStep), LAMBDA e : e.event_type = "ADMIN_ACTION")
    ELSE <<>>

\* The profiles with a user id.
ProfilesOf(user_id) ==
    {users_data[u] : u \in {v \in DOMAIN users_data : users_data[v].user_id = user_id}}

\* C19: every event that the privileged-action injector appends (an
\* ADMIN_ACTION with status SUCCESS) belongs to a user of the IT tenant whose
\* role is not admin; the injector never selects a user with role admin, in
\* either generator.
C19_NoAdminSelected ==
    \A k \in DOMAIN PrivilegedEvents :
        /\ PrivilegedEvents[k].status = "SUCCESS"
        /\ PrivilegedEvents[k].tenant_id = tenant_configs.it.tenant_id
        /\ ProfilesOf(PrivilegedEvents[k].user_id) # {}
        /\ \A profile \in ProfilesOf(PrivilegedEvents[k].user_id) :
               /\ profile.role # "admin"
               /\ profile.tenant_id = tenant_configs.it.tenant_id

\* A run of generate_synthetic_logs.py whose IT tenant has admins and whose
\* injector appended admin actions.
C19_Witness ==
    /\ generator = "synthetic"
    /\ Len(PrivilegedEvents) >= 2
    /\ \E u \in DOMAIN users_data :
           users_data[u].role = "admin" /\ users_data[u].tenant_id = 2

\* The same for the per-tenant generator.
C19_WitnessSeparate ==
    /\ generator = "separate"
    /\ Len(PrivilegedEvents) >= 2
    /\ \E u \in DOMAIN users_data : users_data[u].role = "admin"

\* What the failed-login-burst injector appended, and for one user.
BurstEvents ==
    IF HasRun("_inject_failed_login_bursts")
    THEN AppendedBy("_inject_failed_login_bursts")
    ELSE <<>>

BurstEventsOf(user_id) == UserEvents(BurstEvents, user_id)

BurstUsers == Range(Column(BurstEvents, "user_id"))

\* The time between the earliest and the latest of some events.
Span(events) ==
    LET times == Range(Column(events, "timestamp"))
    IN (CHOOSE t \in times : \A other \in times : other <= t)
       - (CHOOSE t \in times : \A other \in times : t <= other)

\* C20: for every user that the failed-login-burst injector selected, the
\* events it appended for the user are all LOGIN events with status FAILURE,
\* there are between 10 and 36 of them, and their timestamps lie inside one
\* interval of at most 120 minutes: the latest is at most 120 minutes after
\* the earliest.
C20_BurstShape ==
    \A user_id \in BurstUsers :
        /\ \A k \in DOMAIN BurstEventsOf(user_id) :
               /\ BurstEventsOf(user_id)[k].event_type = "LOGIN"
               /\ BurstEventsOf(user_id)[k].status = "FAILURE"
        /\ Len(BurstEventsOf(user_id)) \in 10..36
        /\ Span(BurstEventsOf(user_id)) <= 120 * TicksPerMinute

\* A run of the per-tenant generator with a burst of 36 attempts that spans
\* more than an hour, a burst of 10 attempts and a burst inside 10 minutes.
C20_Witness ==
    /\ generator = "separate"
    /\ \E user_id \in BurstUsers :
           /\ Len(BurstEventsOf(user_id)) = 36
           /\ Span(BurstEventsOf(user_id)) > 60 * TicksPerMinute
    /\ \E user_id \in BurstUsers : Len(BurstEventsOf(user_id)) = 10
    /\ \E user_id \in BurstUsers : Span(BurstEventsOf(user_id)) <= 10 * TicksPerMinute

\* The same for generate_synthetic_logs.py, whose bursts have 10 to 30
\* attempts.
C20_WitnessSynthetic ==
    /\ generator = "synthetic"
    /\ \E user_id \in BurstUsers : Len(BurstEventsOf(user_id)) = 30
    /\ \E user_id \in BurstUsers :
           Span(BurstEventsOf(user_id)) > 60 * TicksPerMinute

-----------------------------------------------------------------------------
(* The timestamps of the baseline *)

\* C21: every baseline event of _generate_normal_events has a timestamp within
\* the last 30 days before generation time, generation_time - 30 days <=
\* timestamp <= generation_time, also after its hour and minute have been
\* replaced.
C21_BaselineWithinDaysBack ==
    \A k \in DOMAIN baseline :
        /\ Now - days_back * TicksPerDay <= baseline[k].timestamp
        /\ baseline[k].timestamp <= Now

\* What does hold: the date of a baseline event is a date of the last 30
\* days, the day of generation included.
BaselineDatesWithinDaysBack ==
    \A k \in DOMAIN baseline :
        /\ (Now \div TicksPerDay) - days_back <= baseline[k].timestamp \div TicksPerDay
        /\ baseline[k].timestamp \div TicksPerDay <= Now \div TicksPerDay

\* A baseline event later than the generation time, and one earlier than 30
\* days before it.
BaselineLeavesDaysBack ==
    /\ \E k \in DOMAIN baseline : baseline[k].timestamp > Now
    /\ \E k \in DOMAIN baseline : baseline[k].timestamp < Now - days_back * TicksPerDay

-----------------------------------------------------------------------------
(* Frames with several flagged users, for the order of the results *)

SevenIps == SixIps \o <<"31.13.1.1">>

\* n rows of one user on consecutive days: the first `nights` of them at
\* 02:07 and the others at 12:07, the last `deletes` of them DELETE events,
\* the addresses going round the first `ips` of SevenIps.
RankingRows(ordinal, n, deletes, nights, ips) ==
    [k \in 1..n |->
        Event(60 * (1440 * k + 60 * (IF k <= nights THEN 2 ELSE 12) + 7), 1,
              UserId(1, ordinal),
              IF k > n - deletes THEN "DELETE" ELSE "UPDATE", <<"RES", k>>, "SUCCESS",
              SevenIps[((k - 1) % ips) + 1])]

\* What a user of such a frame is made of: <<n, deletes, nights, ips>>.  The
\* first is no user at all; the last has the percentages of the second.
RankingDraws ==
    {<<0, 0, 0, 1>>, <<51, 2, 6, 6>>, <<51, 3, 7, 7>>, <<6, 0, 6, 1>>, <<102, 4, 12, 6>>}

MaxRankedUsers == 3

RECURSIVE RankingFrame(_)
RankingFrame(users) ==
    IF users = <<>> THEN <<>>
    ELSE LET o == Len(users)
         IN RankingFrame(SubSeq(users, 1, o - 1))
            \o RankingRows(o, users[o][1], users[o][2], users[o][3], users[o][4])

InitRanking ==
    \E users \in [1..MaxRankedUsers -> RankingDraws] : DetectorLoaded(RankingFrame(users))

\* One call of one of the three methods on each loaded frame.
NextRanking ==
    /\ call = NoCall
    /\ \/ detect_unusual_event_types
       \/ detect_suspicious_ip_access
       \/ detect_off_hours_activity

SpecRanking == InitRanking /\ [][NextRanking]_vars

\* The users of a result list, in the order of the list.
ResultUsers ==
    CASE call.op = "detect_unusual_event_types" ->
             [k \in DOMAIN unusual_event_anomalies |-> unusual_event_anomalies[k].user_id]
      [] call.op = "detect_suspicious_ip_access" ->
             [k \in DOMAIN suspicious_ip_anomalies |-> suspicious_ip_anomalies[k].user_id]
      [] call.op = "detect_off_hours_activity" ->
             [k \in DOMAIN off_hours_anomalies |-> off_hours_anomalies[k][1]]
      [] OTHER -> <<>>

\* The documented sort key of a user, taken from the frame, as a fraction:
\* the share of DELETE events, the number of distinct IPs, the share of
\* off-hours events.
SortKey(u) ==
    CASE call.op = "detect_unusual_event_types" ->
             [num |-> Cardinality(DeleteRows(u)), den |-> Cardinality(RowsOf(u))]
      [] call.op = "detect_suspicious_ip_access" ->
             [num |-> Cardinality(IpsOf(u)), den |-> 1]
      [] call.op = "detect_off_hours_activity" ->
             [num |-> Cardinality(NightRows(u)), den |-> Cardinality(RowsOf(u))]

\* The users that the method's rule flags, taken from the frame.
FlaggedByRule ==
    CASE call.op = "detect_unusual_event_types" ->
             {u \in AllUsers : /\ 100 * Cardinality(DeleteRows(u)) > 2 * Cardinality(RowsOf(u))
                               /\ Cardinality(RowsOf(u)) > 50}
      [] call.op = "detect_suspicious_ip_access" ->
             {u \in AllUsers : \/ Cardinality(IpsOf(u)) > 5
                               \/ Cardinality(OccasionalIps(u)) > 2}
      [] call.op = "detect_off_hours_activity" ->
             {u \in AllUsers : Cardinality(NightRows(u)) > 5}
      [] OTHER -> {}

\* Two users that stand in the frame in the order of rising keys.
RisingInFrame(u, v) ==
    /\ \E i \in RowsOf(u) : \A j \in RowsOf(v) : i < j
    /\ SortKey(u).num * SortKey(v).den < SortKey(v).num * SortKey(u).den

\* C22: detect_unusual_event_types, detect_suspicious_ip_access and
\* detect_off_hours_activity return their flagged users in non-increasing
\* order of the sort key (share of DELETE events, number of distinct IPs,
\* share of off-hours events), and the sort neither adds nor drops a flagged
\* user: the list holds every flagged user once and nobody else.
C22_SortedByKey ==
    /\ \A k \in 1..(Len(ResultUsers) - 1) :
           SortKey(ResultUsers[k]).num * SortKey(ResultUsers[k + 1]).den
               >= SortKey(ResultUsers[k + 1]).num * SortKey(ResultUsers[k]).den
    /\ Range(ResultUsers) = FlaggedByRule
    /\ Len(ResultUsers) = Cardinality(FlaggedByRule)

\* detect_suspicious_ip_access has returned three users, two of which stand
\* in the frame in the order of rising IP counts.
C22_Witness ==
    /\ call.op = "detect_suspicious_ip_access"
    /\ Len(ResultUsers) = 3
    /\ \E u, v \in Range(ResultUsers) : RisingInFrame(u, v)

\* The same for detect_unusual_event_types, with an unflagged user in the
\* frame.
C22_WitnessEventTypes ==
    /\ call.op = "detect_unusual_event_types"
    /\ Len(ResultUsers) = 2
    /\ Cardinality(AllUsers) = 3
    /\ \E u, v \in Range(ResultUsers) : RisingInFrame(u, v)

\* The same for detect_off_hours_activity, with two users of one percentage.
C22_WitnessOffHours ==
    /\ call.op = "detect_off_hours_activity"
    /\ Len(ResultUsers) = 3
    /\ \E u, v \in Range(ResultUsers) : RisingInFrame(u, v)
    /\ \E u, v \in Range(ResultUsers) :
           /\ u # v
           /\ SortKey(u).num * SortKey(v).den = SortKey(v).num * SortKey(u).den

-----------------------------------------------------------------------------
(* The dataset of a generator under the detector *)

\* VaultSphereAnomalyDetector(csv_file) on the file that the generator wrote.
VaultSphereAnomalyDetector_on_dataset ==
    /\ pc = "saved"
    /\ TimestampsParse(file)
    /\ df' = LoadFrame(file)
    /\ pc' = "loaded"
    /\ UNCHANGED <<call, failed_login_anomalies, unusual_event_anomalies,
                   suspicious_ip_anomalies, off_hours_anomalies, summary>>
    /\ UNCHANGED main_vars
    /\ UNCHANGED <<generator, tenant_key, order, users_data, logs, baseline, injected,
                   history, file>>

\* detector.generate_summary_report() on the loaded dataset.
dataset_generate_summary_report ==
    /\ pc = "loaded"
    /\ call = NoCall
    /\ generate_summary_report

NextDataset ==
    \/ NextGen
    \/ VaultSphereAnomalyDetector_on_dataset
    \/ dataset_generate_summary_report

SpecDataset == InitGen /\ [][NextDataset]_vars

\* The detector has reported on the dataset of the run.
DatasetAnalysed == pc = "loaded" /\ ReportRan

\* The users in the result of detect_failed_login_bursts.
ReportedBurstUsers == Range(Column(failed_login_anomalies, "user_id"))

\* C23 as stated: every user that _inject_failed_login_bursts selected is
\* reported by detect_failed_login_bursts with its default parameters on the
\* dataset of the run, whatever burst size and burst duration were drawn.
C23_BurstsRediscovered ==
    DatasetAnalysed => BurstUsers \subseteq ReportedBurstUsers

\* C23, amended: every user that _inject_failed_login_bursts selected and
\* whose injected failed logins lie within 60 minutes of each other, as they
\* do whenever the drawn burst duration is at most 60 minutes, is reported by
\* detect_failed_login_bursts with its default parameters, whatever the burst
\* size; a burst drawn over a longer duration can stay unreported.
C23_ShortBurstsRediscovered ==
    DatasetAnalysed =>
        \A user_id \in BurstUsers :
            Span(BurstEventsOf(user_id)) <= 60 * TicksPerMinute
                => user_id \in ReportedBurstUsers

\* A dataset with a burst inside 60 minutes, reported, and a burst of 10
\* attempts over a longer time that is not reported.
C23_Witness ==
    /\ DatasetAnalysed
    /\ \E user_id \in BurstUsers :
           /\ Span(BurstEventsOf(user_id)) <= 60 * TicksPerMinute
           /\ user_id \in ReportedBurstUsers
    /\ \E user_id \in BurstUsers :
           /\ Len(BurstEventsOf(user_id)) = 10
           /\ Span(BurstEventsOf(user_id)) > 60 * TicksPerMinute
           /\ user_id \notin ReportedBurstUsers

\* What _inject_off_hours_activity appended, and the users it selected.
OffHoursInjected ==
    IF HasRun("_inject_off_hours_activity")
    THEN AppendedBy("_inject_off_hours_activity")
    ELSE <<>>

OffHoursSelected == Range(Column(OffHoursInjected, "user_id"))

\* C24 as stated: on every dataset of SeparateTenantDatasetGenerator, every
\* user that _inject_off_hours_activity selected, for whom it appended 5 to 12
\* events with an hour in {23,0,1,2,3,4,5}, is flagged by
\* detect_off_hours_activity.
C24_OffHoursRediscovered ==
    (DatasetAnalysed /\ generator = "separate") => OffHoursSelected \subseteq OffHoursUsers

\* C24, amended: on every dataset of SeparateTenantDatasetGenerator, every
\* user for whom _inject_off_hours_activity appended 6 to 12 events is
\* flagged by detect_off_hours_activity; a user for whom it appended exactly
\* 5 events is not flagged unless another event of the user falls into the
\* off-hours.
C24_SixAndMoreRediscovered ==
    (DatasetAnalysed /\ generator = "separate") =>
        \A user_id \in OffHoursSelected :
            /\ Len(UserEvents(OffHoursInjected, user_id)) >= 6
                   => user_id \in OffHoursUsers
            /\ (/\ Len(UserEvents(OffHoursInjected, user_id)) = 5
                /\ Cardinality(NightRows(user_id)) = 5)
                   => user_id \notin OffHoursUsers

\* A dataset of the per-tenant generator with a selected user of 12 injected
\* events, flagged, beside a selected user of 5, not flagged.
C24_Witness ==
    /\ DatasetAnalysed
    /\ generator = "separate"
    /\ \E user_id \in OffHoursSelected :
           /\ Len(UserEvents(OffHoursInjected, user_id)) = 12
           /\ user_id \in OffHoursUsers
    /\ \E user_id \in OffHoursSelected :
           /\ Len(UserEvents(OffHoursInjected, user_id)) = 5
           /\ user_id \notin OffHoursUsers

-----------------------------------------------------------------------------
(* Runs of the generators over every number of admins *)

\* The numbers of admins of a tenant: none, some, all but one, all.
AdminCounts == 0..UsersPerTenant

\* random.choice(self.user_roles) of _create_users may give any role to any
\* user: the first `admins` users of each tenant are admins, no other user is.
AssignRoles(users, admins) ==
    [k \in DOMAIN users |->
        IF users[k].local_user_id <= admins THEN [users[k] EXCEPT !.role = "admin"]
        ELSE IF users[k].role = "admin" THEN [users[k] EXCEPT !.role = "employee"]
        ELSE users[k]]

\* _create_users(tenant_key), the roles as the draws of random.choice fall.
separate_create_users_roles ==
    /\ generator = "separate"
    /\ pc = "start"
    /\ \E d \in Draws, admins \in AdminCounts :
           users_data' = AssignRoles(SeparateUsers(tenant_key, d), admins)
    /\ pc' = "users"
    /\ UNCHANGED <<generator, tenant_key, order, logs, baseline, injected>>
    /\ UNCHANGED detector_vars
    /\ UNCHANGED file
    /\ Record("_create_users")

\* _create_users() of the combined generator, the roles likewise.
synthetic_create_users_roles ==
    /\ generator = "synthetic"
    /\ pc = "start"
    /\ \E d \in Draws, admins \in AdminCounts :
           users_data' = AssignRoles(SyntheticUsers(d), admins)
    /\ pc' = "users"
    /\ UNCHANGED <<generator, tenant_key, order, logs, baseline, injected>>
    /\ UNCHANGED detector_vars
    /\ UNCHANGED file
    /\ Record("_create_users")

NextRoles ==
    \/ synthetic_create_users_roles
    \/ synthetic_generate_normal_events
    \/ synthetic_inject_failed_login_bursts
    \/ synthetic_inject_unusual_event_types
    \/ synthetic_inject_unusual_ip_access
    \/ synthetic_inject_off_hours_activity
    \/ generate_logs_sort
    \/ separate_create_users_roles
    \/ separate_generate_normal_events
    \/ separate_inject_failed_login_bursts
    \/ separate_inject_off_hours_activity
    \/ separate_inject_tenant_specific_anomalies
    \/ separate_inject_suspicious_ip_access
    \/ generate_tenant_dataset_sort
    \/ synthetic_save_to_csv
    \/ separate_save_to_csv

SpecRoles == InitGen /\ [][NextRoles]_vars

\* C25: no injector of either generator asks random.sample for more users than
\* its candidate list holds, whatever the roles of the users are, so no run
\* ends in a ValueError.
C25_NoSampleTooLarge == pc # "ValueError"

\* The one run that ends so: the privileged-action tenant with exactly one
\* user who is not an admin, where max(2, ...) asks for two.
SampleTooLargeOnlyForOneNonAdmin ==
    pc = "ValueError" =>
        /\ generator = "separate"
        /\ tenant_key = "it"
        /\ Len(NonAdminUsers(users_data)) = 1
        /\ history[Len(history)].step = "_inject_tenant_specific_anomalies"

\* Every other number of admins is injected without error, all admins too.
OtherRoleAssignmentsSaved ==
    /\ pc = "saved"
    /\ generator = "separate"
    /\ tenant_key = "it"
    /\ NonAdminUsers(users_data) = <<>>

\* The failed logins of u with a timestamp in [s, e].
FailuresBetween(u, s, e) ==
    {i \in FailureRows(u) : df[i].timestamp >= s /\ df[i].timestamp <= e}

\* One record of the result against the frame and the arguments of the call.
BurstRecordConsistent(r) ==
    LET stamps == {df[i].timestamp : i \in FailureRows(r.user_id)}
        inside == FailuresBetween(r.user_id, r.start_time, r.end_time)
    IN /\ r.failure_count >= call.threshold
       /\ r.start_time \in stamps
       /\ r.end_time \in stamps
       /\ r.start_time <= r.end_time
       /\ r.end_time <= r.start_time + 60 * call.time_window_minutes
       /\ r.failure_count = Cardinality(inside)
       /\ r.unique_ips = Len(r.suspicious_ips)
       /\ \A a, b \in DOMAIN r.suspicious_ips :
              a # b => r.suspicious_ips[a] # r.suspicious_ips[b]
       /\ Range(r.suspicious_ips) = {df[i].ip_address : i \in inside}

\* C26: every record of detect_failed_login_bursts is consistent with the
\* frame: failure_count is at least the threshold; start_time and end_time are
\* timestamps of failed logins of the user with start_time <= end_time <=
\* start_time + window; failure_count is the number of the user's failed
\* logins in [start_time, end_time]; unique_ips is the length of
\* suspicious_ips, whose entries are pairwise distinct and are exactly the
\* addresses of those events.
C26_BurstRecordsConsistent ==
    BurstsRan =>
        \A k \in DOMAIN failed_login_anomalies :
            BurstRecordConsistent(failed_login_anomalies[k])

\* A record of several events from two addresses, one of them seen twice,
\* that ends before its window does and leaves a failed login of the user out.
C26_Witness ==
    /\ BurstsRan
    /\ call.threshold >= 2
    /\ \E k \in DOMAIN failed_login_anomalies :
           LET r == failed_login_anomalies[k]
           IN /\ r.failure_count >= 3
              /\ r.unique_ips = 2
              /\ r.start_time < r.end_time
              /\ r.end_time < r.start_time + 60 * call.time_window_minutes
              /\ r.failure_count < Cardinality(FailureRows(r.user_id))

-----------------------------------------------------------------------------
(* detect_unusual_event_types on frames with DELETE events and on datasets *)

InitDeletes == InitGen \/ InitEventTypes

NextDeletes == NextDataset \/ NextEventTypes

SpecDeletes == InitDeletes /\ [][NextDeletes]_vars

\* C27: detect_unusual_event_types flags only users with at least two DELETE
\* events; no generator writes a DELETE event, so the detector returns the
\* empty list on every generated dataset.
C27_NoDeletesNoFlags ==
    /\ \A u \in UnusualUsers : Cardinality(DeleteRows(u)) >= 2
    /\ generator # "none" =>
           /\ \A k \in DOMAIN logs : logs[k].event_type # "DELETE"
           /\ unusual_event_anomalies = <<>>

\* A dataset with complaints injected has been analysed; one of its users has
\* more than 50 events, none of them a DELETE.
C27_Witness ==
    /\ DatasetAnalysed
    /\ \E k \in DOMAIN injected : injected[k].event_type = "COMPLAINT"
    /\ \E u \in AllUsers : Cardinality(RowsOf(u)) > 50

\* On a frame a user with exactly two DELETE events is flagged.
C27_WitnessFrame ==
    /\ generator = "none"
    /\ \E u \in UnusualUsers : Cardinality(DeleteRows(u)) = 2

-----------------------------------------------------------------------------
(* Frames of users with at most three addresses *)

\* The numbers of events from one address.
FewIpCounts == {0, 1, 2, 3, 4, 27, 40}

FewIpAddresses == <<<<"10.0", 1>>, <<"185.220", 1>>, <<"185.220", 2>>>>

\* A second user: absent, or the user of SecondIpUser with seven addresses.
InitFewIps ==
    \E counts \in [1..3 -> FewIpCounts], second \in SecondIpUser :
        /\ \E a \in 1..3 : counts[a] > 0
        /\ DetectorLoaded(second
                          \o Concat([a \in 1..3 |->
                                        RowsFromIp(1, 1, counts[a], FewIpAddresses[a])]))

NextFewIps ==
    /\ call = NoCall
    /\ detect_suspicious_ip_access

SpecFewIps == InitFewIps /\ [][NextFewIps]_vars

IpsRan == call.op = "detect_suspicious_ip_access"

\* C28: a user whose events come from at most three distinct addresses is
\* never flagged by detect_suspicious_ip_access, however the events are
\* spread over the addresses.
C28_FewIpsNeverFlagged ==
    \A u \in AllUsers : Cardinality(IpsOf(u)) <= 3 => IpRecordsOf(u) = {}

\* The detector has run on a user with three addresses, two of them used
\* three times or more and below 10%, beside a user it flags.
C28_Witness ==
    /\ IpsRan
    /\ suspicious_ip_anomalies # <<>>
    /\ \E u \in AllUsers : /\ Cardinality(IpsOf(u)) = 3
                           /\ Cardinality(OccasionalIps(u)) = 2
                           /\ IpRecordsOf(u) = {}

-----------------------------------------------------------------------------
(* The detector and analyze_tenant_logs on one file *)

\* The file holds the rows of an off-hours frame; the detector has been
\* constructed on it and analyze_tenant_logs has been started on it.
InitAgree ==
    \E a \in 0..MaxOffHours, c \in 0..MaxOtherHours,
       hours \in OffHourPatterns, second \in SecondOffHoursUser :
        LET csv == InputFile(FrameLines(RowsAtHours(1, 1, a, hours) \o second
                                        \o RowsAtHours(1, 1, c, OtherHourPattern)))
        IN /\ DetectorConstructed(LoadFrame(csv))
           /\ entry = "analyze_tenant_logs"
           /\ input = csv
           /\ outcome = "called"
           /\ active_users = {}
           /\ validation = <<>>
           /\ GeneratorIdle

NextAgree ==
    \/ analyze_tenant_logs_main
    \/ call = NoCall /\ detect_off_hours_activity

SpecAgree == InitAgree /\ [][NextAgree]_vars

\* The users analyze_tenant_logs counts as off-hours users.
ActiveUserIds == {p[1] : p \in active_users}

BothOffHoursRan == outcome = "completed" /\ call.op = "detect_off_hours_activity"

\* C29: on every dataset the users flagged by
\* VaultSphereAnomalyDetector.detect_off_hours_activity are the users
\* analyze_tenant_logs.detect_anomalies counts as off-hours users.
C29_OffHoursDetectionsAgree == BothOffHoursRan => OffHoursUsers = ActiveUserIds

\* The hours are the same in both; the two differ by the users with exactly
\* five off-hours events, whom analyze_tenant_logs counts and the detector
\* does not flag.
OffHoursDetectionsDifferAtFive ==
    BothOffHoursRan =>
        /\ OffHoursUsers \subseteq ActiveUserIds
        /\ ActiveUserIds \ OffHoursUsers
               = {u \in AllUsers : Cardinality(NightRows(u)) = 5}

\* Both have run on a file with a user of exactly five off-hours events.
OffHoursDetectionsDiffer ==
    /\ BothOffHoursRan
    /\ ActiveUserIds # OffHoursUsers
    /\ OffHoursUsers # {}

-----------------------------------------------------------------------------
(* validate_enhanced_datasets.py on the file of the per-tenant generator *)

\* df['status'].value_counts(): the labels that occur.
StatusLabels(csv) == {Cell(csv, k, "status") : k \in DOMAIN csv.rows}

\* The verdict on the column order and the verdict on the status label, as
\* validate_dataset prints them.
Verdicts(csv) ==
    <<IF csv.header = expected_columns
      THEN "column_order_matches" ELSE "column_order_mismatch",
      IF "FAIL" \in StatusLabels(csv) /\ "FAILURE" \notin StatusLabels(csv)
      THEN "status_uses_FAIL" ELSE "status_should_use_FAIL">>

\* The resource ids that start with RES_.
ResourceNumbers(csv) ==
    {k \in DOMAIN csv.rows : Cell(csv, k, "resource_id")[1] = "RES"}

\* validate_dataset(filename, ...): read_csv, to_datetime, the two verdicts,
\* then df['anomaly_injected'], which raises KeyError for a file without the
\* column, then min() of the resource numbers, which raises ValueError when
\* there is none.  main() catches nothing.
validate_dataset ==
    /\ generator = "separate"
    /\ pc = "saved"
    /\ entry = "none"
    /\ entry' = "validate_enhanced_datasets"
    /\ input' = file
    /\ IF ~TimestampsParse(file)
       THEN outcome' = "ValueError" /\ validation' = <<>>
       ELSE /\ validation' = Verdicts(file)
            /\ outcome' = IF "anomaly_injected" \notin Range(file.header) THEN "KeyError"
                          ELSE IF ResourceNumbers(file) = {} THEN "ValueError"
                          ELSE "completed"
    /\ UNCHANGED active_users
    /\ UNCHANGED <<df, call, failed_login_anomalies, unusual_event_anomalies,
                   suspicious_ip_anomalies, off_hours_anomalies, summary>>
    /\ UNCHANGED generator_vars

NextValidate ==
    \/ NextGen
    \/ validate_dataset

SpecValidate == InitGen /\ [][NextValidate]_vars

Validated == entry = "validate_enhanced_datasets"

\* C30: validate_dataset on a file written by save_to_csv of
\* SeparateTenantDatasetGenerator runs to completion without an exception and
\* reports neither a column-order mismatch nor a status-label mismatch.
C30_ValidatorAccepts ==
    Validated =>
        /\ outcome = "completed"
        /\ validation = <<"column_order_matches", "status_uses_FAIL">>

\* What it does on every such file: both mismatches are printed, then the
\* lookup of the anomaly_injected column ends the run.
ValidatorRejectsEveryDataset ==
    Validated =>
        /\ outcome = "KeyError"
        /\ validation = <<"column_order_mismatch", "status_should_use_FAIL">>

\* The validator has run on a dataset with injected failed logins.
ValidatedWithFailures ==
    /\ Validated
    /\ "FAILURE" \in StatusLabels(input)

=============================================================================
